---------------------------- MODULE Spec2Model ----------------------------
(***************************************************************************)
(* A model of the pet-health bot (src/bot.py over src/database.py): the    *)
(* process-wide session store, the reminder scheduler with its time-zone   *)
(* conversion, and the supervisor hand-off of transcription requests.      *)
(*                                                                         *)
(* Time is a number of minutes since 00:00 of day 0, which is a Monday, so *)
(* that datetime.weekday() of a time t is (t \div 1440) % 7.  A timedelta  *)
(* is a number of minutes.  isoformat() strings of datetimes compare as    *)
(* the datetimes do, so the stored TIMESTAMP text is modelled by the       *)
(* number and the SQL comparison remind_at <= now by <=.                   *)
(*                                                                         *)
(* An inbound update of a user waits in inbox[u] until its handler runs;   *)
(* a handler that is suspended at an await after which it still touches    *)
(* state keeps its place in pc[u] and its local variables in frame[u].     *)
(* The two scheduler jobs run on the same event loop and are suspended at  *)
(* their send_message calls (job, sweep).                                  *)
(***************************************************************************)
EXTENDS Integers, Sequences, FiniteSets, TLC

VARIABLES
    USER_STATES,   \* bot.py USER_STATES, the entries keyed by user_id
    USER_DATA,     \* bot.py USER_STATES, the entries keyed by f"{user_id}_data"
    pets,          \* table pets, keyed by user_id (UNIQUE(user_id))
    records,       \* table records, keyed by id
    reminders,     \* table reminders, keyed by id
    supervisors,   \* table supervisors, keyed by user_id (UNIQUE)
    requests,      \* table transcription_requests, keyed by id
    nextId,        \* the AUTOINCREMENT counter of every table
    now,           \* datetime.now() of the server
    inbox,         \* the update of each user that waits for its handler
    pc,            \* where the handler of inbox[u] is suspended
    frame,         \* the local variables of the suspended handler
    reply,         \* the answer the handler of the user's last update gave
    job,           \* send_pending_reminders: its place, its list, its index
    sweep,         \* check_recurring_reminders: its place, its list, its index
    buttons,       \* the inline buttons delivered so far, as <<group, id>>
    tzT, tzOff, tzOut, tzPc,  \* the inputs and the result of the conversions
    tagText, tagOut           \* the input and the result of auto_detect_tag

dbVars      == <<pets, records, reminders, supervisors, requests, nextId>>
sessionVars == <<USER_STATES, USER_DATA>>
handlerVars == <<inbox, pc, frame, reply>>
tzVars      == <<tzT, tzOff, tzOut, tzPc>>
tagVars     == <<tagText, tagOut>>
fnVars      == <<tzVars, tagVars>>
vars == <<USER_STATES, USER_DATA, pets, records, reminders, supervisors,
          requests, nextId, now, inbox, pc, frame, reply, job, sweep,
          buttons, tzT, tzOff, tzOut, tzPc, tagText, tagOut>>

-----------------------------------------------------------------------------
(* Bounds of the model *)

MaxUsers == 2          \* user ids 1..MaxUsers
MaxDay == 1            \* the clock stops at the end of day MaxDay
MaxReminders == 2      \* rows the reminders table may hold
MaxRepeating == 1      \* reminders created next to the daily sweep
MaxRequests == 2       \* transcription requests waiting for a supervisor

Users == 1..MaxUsers

-----------------------------------------------------------------------------
(* Python values *)

None == "None"                       \* None of a text column or value
NoInt == 0 - 1                       \* None of an integer column
EmptyDict == [k \in {} |-> None]     \* {}

\* d is falsy: `if not user_data`
IsEmpty(d) == DOMAIN d = {}

\* d[key] = value, on a copy
DictSet(d, key, value) ==
    [k \in DOMAIN d \cup {key} |-> IF k = key THEN value ELSE d[k]]

\* dict.pop(key, None) on a table keyed by key
Pop(f, key) == [k \in DOMAIN f \ {key} |-> f[k]]

\* a new or replaced row
Put(f, key, row) == [k \in DOMAIN f \cup {key} |-> IF k = key THEN row ELSE f[k]]

MinutesPerHour == 60
MinutesPerDay == 24 * MinutesPerHour

\* datetime.date() as a day number, datetime.weekday(), and the time of day
DateOf(t) == t \div MinutesPerDay
Weekday(t) == DateOf(t) % 7
\* datetime(year, month, day, hours, minutes)
DateTime(date, hours, minutes) == date * MinutesPerDay + hours * MinutesPerHour + minutes

-----------------------------------------------------------------------------
(* Time zones.  A time-zone string is the sequence of its characters. *)

SERVER_TIMEZONE == <<"+", "0", "3", ":", "0", "0">>

\* the offsets of TIMEZONES, in the order of the list
TIMEZONES ==
    <<
      <<"-", "1", "2", ":", "0", "0">>,
      <<"-", "1", "1", ":", "0", "0">>,
      <<"-", "1", "0", ":", "0", "0">>,
      <<"-", "0", "9", ":", "0", "0">>,
      <<"-", "0", "8", ":", "0", "0">>,
      <<"-", "0", "7", ":", "0", "0">>,
      <<"-", "0", "6", ":", "0", "0">>,
      <<"-", "0", "5", ":", "0", "0">>,
      <<"-", "0", "4", ":", "0", "0">>,
      <<"-", "0", "3", ":", "0", "0">>,
      <<"-", "0", "2", ":", "0", "0">>,
      <<"-", "0", "1", ":", "0", "0">>,
      <<"+", "0", "0", ":", "0", "0">>,
      <<"+", "0", "1", ":", "0", "0">>,
      <<"+", "0", "2", ":", "0", "0">>,
      <<"+", "0", "3", ":", "0", "0">>,
      <<"+", "0", "4", ":", "0", "0">>,
      <<"+", "0", "5", ":", "0", "0">>,
      <<"+", "0", "5", ":", "3", "0">>,
      <<"+", "0", "6", ":", "0", "0">>,
      <<"+", "0", "7", ":", "0", "0">>,
      <<"+", "0", "8", ":", "0", "0">>,
      <<"+", "0", "9", ":", "0", "0">>,
      <<"+", "1", "0", ":", "0", "0">>,
      <<"+", "1", "1", ":", "0", "0">>,
      <<"+", "1", "2", ":", "0", "0">>
    >>

\* int(c) of one decimal digit
DigitValue(c) ==
    CASE c = "0" -> 0 [] c = "1" -> 1 [] c = "2" -> 2 [] c = "3" -> 3
      [] c = "4" -> 4 [] c = "5" -> 5 [] c = "6" -> 6 [] c = "7" -> 7
      [] c = "8" -> 8 [] c = "9" -> 9

\* int(s) of a string of decimal digits
RECURSIVE ParseInt(_)
ParseInt(s) ==
    IF Len(s) = 0 THEN 0
    ELSE 10 * ParseInt(SubSeq(s, 1, Len(s) - 1)) + DigitValue(s[Len(s)])

\* s.split(sep)
RECURSIVE Split(_, _)
Split(s, sep) ==
    IF \E i \in 1..Len(s) : s[i] = sep
    THEN LET i == CHOOSE j \in 1..Len(s) :
                      s[j] = sep /\ \A k \in 1..(j - 1) : s[k] # sep
         IN <<SubSeq(s, 1, i - 1)>> \o Split(SubSeq(s, i + 1, Len(s)), sep)
    ELSE <<s>>

\* a faulty variant: the minutes of the offset are dropped
parse_timezone_offset_whole_hours(tz_str) ==
    (IF tz_str[1] = "+" THEN 1 ELSE 0 - 1)
        * ParseInt(Split(Tail(tz_str), ":")[1]) * MinutesPerHour

\* the offset from UTC in minutes of "+03:00" or "-05:30"
parse_timezone_offset(tz_str) ==
    LET sign == IF tz_str[1] = "+" THEN 1 ELSE 0 - 1
        parts == Split(Tail(tz_str), ":")
        hours == ParseInt(parts[1])
        minutes == IF Len(parts) > 1 THEN ParseInt(parts[2]) ELSE 0
    IN sign * (hours * MinutesPerHour + minutes)

\* a faulty variant: the server's time moved the wrong way
convert_user_time_to_server_added(user_time, user_tz) ==
    user_time + (parse_timezone_offset(user_tz) - parse_timezone_offset(SERVER_TIMEZONE))

convert_user_time_to_server(user_time, user_tz) ==
    LET user_offset == parse_timezone_offset(user_tz)
        server_offset == parse_timezone_offset(SERVER_TIMEZONE)
        diff_minutes == user_offset - server_offset
    IN user_time - diff_minutes

convert_server_time_to_user(server_time, user_tz) ==
    LET user_offset == parse_timezone_offset(user_tz)
        server_offset == parse_timezone_offset(SERVER_TIMEZONE)
        diff_minutes == user_offset - server_offset
    IN server_time + diff_minutes

-----------------------------------------------------------------------------
(* The session store *)

STATE_ONBOARDING_NAME == "onboarding_name"
STATE_ONBOARDING_TYPE == "onboarding_type"
STATE_ONBOARDING_TIMEZONE == "onboarding_timezone"
STATE_ONBOARDING_GENDER == "onboarding_gender"
STATE_ONBOARDING_BREED == "onboarding_breed"
STATE_ONBOARDING_BIRTHDATE == "onboarding_birthdate"
STATE_ONBOARDING_WEIGHT == "onboarding_weight"
STATE_ONBOARDING_VACCINATIONS == "onboarding_vaccinations"
STATE_ONBOARDING_PHOTO == "onboarding_photo"
STATE_ONBOARDING_OWNER == "onboarding_owner"
STATE_REMINDER_TEXT == "reminder_text"
STATE_REMINDER_DAY == "reminder_day"
STATE_REMINDER_TIME == "reminder_time"
STATE_REMINDER_RECURRING == "reminder_recurring"
STATE_EDIT_REMINDER_TEXT == "edit_reminder_text"
STATE_EDIT_REMINDER_DAY == "edit_reminder_day"
STATE_EDIT_REMINDER_TIME == "edit_reminder_time"
STATE_EDIT_PET_NAME == "edit_pet_name"
STATE_WAITING_FOR_PDF == "waiting_for_pdf"
STATE_SUPERVISOR_TRANSCRIPTION == "supervisor_transcription"
STATE_NORMAL == "normal"
STATE_NOTE_TEXT == "note_text"
STATE_NOTE_TAG == "note_tag"

\* The two kinds of entries of USER_STATES, as one value.
Store == [states |-> USER_STATES, data |-> USER_DATA]

get_user_state(store, user_id) ==
    IF user_id \in DOMAIN store.states THEN store.states[user_id] ELSE STATE_NORMAL

\* a faulty variant: the state tag is written under every key of the store
set_user_state_for_all(store, user_id, state, data) ==
    [states |-> [k \in DOMAIN store.states \cup {user_id} |-> state],
     data |-> IF IsEmpty(data) THEN store.data ELSE Put(store.data, user_id, data)]

\* data is a dict; a call without data (data=None) passes EmptyDict, which
\* `if data:` treats as it treats None.
set_user_state(store, user_id, state, data) ==
    [states |-> Put(store.states, user_id, state),
     data |-> IF ~IsEmpty(data) THEN Put(store.data, user_id, data) ELSE store.data]

get_user_data(store, user_id) ==
    IF user_id \in DOMAIN store.data THEN store.data[user_id] ELSE EmptyDict

\* a faulty variant: the data of the session stays
clear_user_state_keeps_data(store, user_id) ==
    [states |-> Pop(store.states, user_id), data |-> store.data]

\* a faulty variant: the state of the session stays
clear_user_state_keeps_state(store, user_id) ==
    [states |-> store.states, data |-> Pop(store.data, user_id)]

clear_user_state(store, user_id) ==
    [states |-> Pop(store.states, user_id), data |-> Pop(store.data, user_id)]

\* the store after the step
SetStore(store) == USER_STATES' = store.states /\ USER_DATA' = store.data

-----------------------------------------------------------------------------
(* Updates.  An update is a command, a text or a button press; the callback  *)
(* data "take_request_7" is the tag "take_request" with arg 7.  A text is    *)
(* the sequence of its characters; a text whose characters no code looks at  *)
(* is written as one symbol.                                                 *)

NoUpdate == [kind |-> "none", tag |-> "", arg |-> 0, txt |-> <<>>]
Command(name) == [kind |-> "command", tag |-> name, arg |-> 0, txt |-> <<>>]
Callback(tag, arg) == [kind |-> "callback", tag |-> tag, arg |-> arg, txt |-> <<>>]
Text(txt) == [kind |-> "text", tag |-> "", arg |-> 0, txt |-> txt]
\* a photo without caption: update.message.text is None, written <<>>
Photo == [kind |-> "photo", tag |-> "", arg |-> 0, txt |-> <<>>]

\* the labels of get_main_menu_keyboard, and the older label of the export
\* button that handle_menu_buttons still accepts
BTN_PET == <<"Moy pitomets">>      \* "Мой питомец"
BTN_REMINDERS == <<"Napominaniya">>   \* "Напоминания"
BTN_HISTORY == <<"Istoriya">>      \* "История"
BTN_EXPORT == <<"Eksport PDF">>    \* "Экспорт PDF"
BTN_TRANSCRIPT == <<"Rasshifrovka">>   \* "Расшифровка"
BTN_NOTE == <<"Zametka">>          \* "Заметка"
MenuLabels == {BTN_PET, BTN_REMINDERS, BTN_HISTORY, BTN_EXPORT, BTN_TRANSCRIPT, BTN_NOTE}

\* the update of user u arrives and waits for its handler
Arrive(u, update) ==
    /\ inbox[u].kind = "none"
    /\ pc[u] = "idle"
    /\ inbox' = [inbox EXCEPT ![u] = update]
    /\ reply' = [reply EXCEPT ![u] = "none"]
    /\ UNCHANGED <<pc, frame>>

\* the handler of u's update ends with the answer r
Finish(u, r) ==
    /\ inbox' = [inbox EXCEPT ![u] = NoUpdate]
    /\ pc' = [pc EXCEPT ![u] = "idle"]
    /\ frame' = [frame EXCEPT ![u] = EmptyDict]
    /\ reply' = [reply EXCEPT ![u] = r]

\* the handler of u's update is suspended at the await named p, holding locals
Suspend(u, p, locals) ==
    /\ pc' = [pc EXCEPT ![u] = p]
    /\ frame' = [frame EXCEPT ![u] = locals]
    /\ UNCHANGED <<inbox, reply>>

\* u's update is the button press tag, and its handler has not started
Pressed(u, tag) ==
    /\ inbox[u].kind = "callback"
    /\ inbox[u].tag = tag
    /\ pc[u] = "idle"

\* u's update is the command name
Commanded(u, name) ==
    /\ inbox[u].kind = "command"
    /\ inbox[u].tag = name
    /\ pc[u] = "idle"

-----------------------------------------------------------------------------
(* The tables of database.py *)

STATUS_PENDING == "pending"
STATUS_DONE == "vypolneno"        \* "выполнено"
STATUS_SKIPPED == "propushcheno"  \* "пропущено"
NoTime == <<>>                    \* NULL of reminders.time_of_day

\* get_pet, get_pet_by_id: the row, or EmptyDict for None
get_pet(petTable, user_id) ==
    IF user_id \in DOMAIN petTable THEN petTable[user_id] ELSE EmptyDict

get_pet_by_id(petTable, pet_id) ==
    IF \E u \in DOMAIN petTable : petTable[u].id = pet_id
    THEN petTable[CHOOSE u \in DOMAIN petTable : petTable[u].id = pet_id]
    ELSE EmptyDict

\* pet.get("timezone", "+03:00") if pet else "+03:00"
PetTimezone(pet) == IF IsEmpty(pet) THEN SERVER_TIMEZONE ELSE pet.timezone

get_reminder_by_id(reminderTable, reminder_id) ==
    IF reminder_id \in DOMAIN reminderTable THEN reminderTable[reminder_id] ELSE EmptyDict

\* INSERT INTO reminders: is_active 1, status 'pending' and sent 0 by default
create_reminder(reminderTable, id, user_id, pet_id, text, remind_at, day_of_week, time_of_day, is_recurring, is_daily) ==
    Put(reminderTable, id,
        [id |-> id, user_id |-> user_id, pet_id |-> pet_id, text |-> text,
         remind_at |-> remind_at, day_of_week |-> day_of_week,
         time_of_day |-> time_of_day, is_recurring |-> is_recurring,
         is_daily |-> is_daily, is_active |-> TRUE,
         status |-> STATUS_PENDING, sent |-> FALSE])

\* UPDATE reminders SET ... WHERE id = ?: nothing when the row is gone
UpdateRow(table, id, row) == IF id \in DOMAIN table THEN Put(table, id, row) ELSE table

\* a faulty variant: rows already sent are selected too
PendingReminderIds_sent_too(reminderTable, t) ==
    {id \in DOMAIN reminderTable :
        /\ reminderTable[id].remind_at <= t
        /\ reminderTable[id].status = STATUS_PENDING}

\* WHERE remind_at <= ? AND sent = 0 AND status = 'pending'
PendingReminderIds(reminderTable, t) ==
    {id \in DOMAIN reminderTable :
        /\ reminderTable[id].remind_at <= t
        /\ reminderTable[id].sent = FALSE
        /\ reminderTable[id].status = STATUS_PENDING}

\* the lists that hold every id of ids once
RECURSIVE Orderings(_)
Orderings(ids) ==
    IF ids = {} THEN {<<>>}
    ELSE UNION {{<<id>> \o rest : rest \in Orderings(ids \ {id})} : id \in ids}

\* the rows of ids ORDER BY remind_at ASC; rows of one remind_at come in any order
RowsByRemindAt(reminderTable, ids) ==
    {[i \in 1..Len(order) |-> reminderTable[order[i]]] : order \in
        {o \in Orderings(ids) :
            \A i, j \in 1..Len(o) :
                i < j => reminderTable[o[i]].remind_at <= reminderTable[o[j]].remind_at}}

\* the results get_pending_reminders may return at the time t
get_pending_reminders(reminderTable, t) ==
    RowsByRemindAt(reminderTable, PendingReminderIds(reminderTable, t))

mark_reminder_sent(reminderTable, reminder_id) ==
    IF reminder_id \in DOMAIN reminderTable
    THEN [reminderTable EXCEPT ![reminder_id].sent = TRUE]
    ELSE reminderTable

update_reminder_status(reminderTable, reminder_id, status) ==
    IF reminder_id \in DOMAIN reminderTable
    THEN [reminderTable EXCEPT ![reminder_id].status = status]
    ELSE reminderTable

toggle_reminder_active(reminderTable, reminder_id, is_active) ==
    IF reminder_id \in DOMAIN reminderTable
    THEN [reminderTable EXCEPT ![reminder_id].is_active = is_active]
    ELSE reminderTable

disable_reminder_recurring(reminderTable, reminder_id) ==
    IF reminder_id \in DOMAIN reminderTable
    THEN [reminderTable EXCEPT ![reminder_id].is_recurring = FALSE]
    ELSE reminderTable

\* a faulty variant: the new time is stored and the delivery flags are left as they are
reset_reminder_for_next_week_time_only(reminderTable, reminder_id, next_remind_at) ==
    IF reminder_id \in DOMAIN reminderTable
    THEN [reminderTable EXCEPT ![reminder_id].remind_at = next_remind_at]
    ELSE reminderTable

reset_reminder_for_next_week(reminderTable, reminder_id, next_remind_at) ==
    IF reminder_id \in DOMAIN reminderTable
    THEN [reminderTable EXCEPT ![reminder_id].remind_at = next_remind_at,
                               ![reminder_id].sent = FALSE,
                               ![reminder_id].status = STATUS_PENDING]
    ELSE reminderTable

delete_reminder(reminderTable, reminder_id) == Pop(reminderTable, reminder_id)

\* WHERE is_recurring = 1 AND is_active = 1 AND sent = 1 AND status != 'pending'
RecurringToConfirmIds(reminderTable) ==
    {id \in DOMAIN reminderTable :
        /\ reminderTable[id].is_recurring
        /\ reminderTable[id].is_active
        /\ reminderTable[id].sent
        /\ reminderTable[id].status # STATUS_PENDING}

get_recurring_reminders_to_confirm(reminderTable) ==
    RowsByRemindAt(reminderTable, RecurringToConfirmIds(reminderTable))

-----------------------------------------------------------------------------
(* The clock *)

\* the clock moves on to one of the times of points
Tick(points) ==
    /\ \E t \in points : t > now /\ now' = t
    /\ UNCHANGED <<sessionVars, dbVars, handlerVars, job, sweep, buttons, fnVars>>

\* "09:30" as hours and minutes: time_of_day.split(":"), int(), int()
ParseTime(time_of_day) ==
    LET time_parts == Split(time_of_day, ":")
    IN [hours |-> ParseInt(time_parts[1]), minutes |-> ParseInt(time_parts[2])]

DigitChar(n) ==
    CASE n = 0 -> "0" [] n = 1 -> "1" [] n = 2 -> "2" [] n = 3 -> "3"
      [] n = 4 -> "4" [] n = 5 -> "5" [] n = 6 -> "6" [] n = 7 -> "7"
      [] n = 8 -> "8" [] n = 9 -> "9"

\* f"{hours:02d}:{minutes:02d}"
FormatTime(hours, minutes) ==
    <<DigitChar(hours \div 10), DigitChar(hours % 10), ":",
      DigitChar(minutes \div 10), DigitChar(minutes % 10)>>

-----------------------------------------------------------------------------
(* send_pending_reminders, every minute *)

IdleJob == [pc |-> "idle", pending |-> <<>>, idx |-> 0, delivered |-> 0]

\* The loop from the item i on, up to its next send_message: an item that is
\* not active is skipped, and one whose pet is gone raises at pet['name'],
\* inside the try, which is logged.  Len(pending) + 1 when the loop ends.
RECURSIVE NextToSend(_, _, _)
NextToSend(pending, i, petTable) ==
    IF i > Len(pending) THEN i
    ELSE IF ~pending[i].is_active THEN NextToSend(pending, i + 1, petTable)
    ELSE IF IsEmpty(get_pet_by_id(petTable, pending[i].pet_id))
         THEN NextToSend(pending, i + 1, petTable)
    ELSE i

\* what the loop reads of a row of its list
Read(row) == [id |-> row.id, user_id |-> row.user_id, pet_id |-> row.pet_id,
              text |-> row.text, is_active |-> row.is_active]

\* the job reads the due reminders and runs up to its first send_message
StartPass ==
    /\ job.pc = "idle"
    /\ \E rows \in get_pending_reminders(reminders, now) :
          LET pending == [i \in 1..Len(rows) |-> Read(rows[i])]
              i == NextToSend(pending, 1, pets)
          IN job' = [pc |-> IF i <= Len(pending) THEN "send" ELSE "idle",
                     pending |-> pending, idx |-> i, delivered |-> 0]
    /\ UNCHANGED <<sessionVars, dbVars, now, handlerVars, sweep, buttons, fnVars>>

\* the job after the item job.idx, up to its next send_message or its end
JobAfter(delivered) ==
    LET i == NextToSend(job.pending, job.idx + 1, pets)
    IN IF i <= Len(job.pending)
       THEN [job EXCEPT !.idx = i, !.delivered = delivered]
       ELSE [IdleJob EXCEPT !.delivered = delivered]

\* a faulty variant: the reminder is marked sent although send_message raised
SendReminderFails_marked ==
    /\ job.pc = "send"
    /\ reminders' = mark_reminder_sent(reminders, job.pending[job.idx].id)
    /\ job' = JobAfter(0)
    /\ UNCHANGED <<sessionVars, pets, records, supervisors, requests, nextId,
                   now, handlerVars, sweep, buttons, fnVars>>

\* a faulty variant: the exception leaves the loop
SendReminderFails_aborts ==
    /\ job.pc = "send"
    /\ job' = IdleJob
    /\ UNCHANGED <<sessionVars, dbVars, now, handlerVars, sweep, buttons, fnVars>>

\* send_message raised: logged, and the loop goes on
SendReminderFails ==
    /\ job.pc = "send"
    /\ job' = JobAfter(0)
    /\ UNCHANGED <<sessionVars, dbVars, now, handlerVars, sweep, buttons, fnVars>>

\* send_message returned: the owner holds the notification with its two buttons
SendReminderOk ==
    /\ job.pc = "send"
    /\ LET reminder == job.pending[job.idx]
       IN /\ reminders' = mark_reminder_sent(reminders, reminder.id)
          /\ buttons' = buttons \cup {<<"reminder", reminder.id>>}
          /\ job' = JobAfter(reminder.id)
    /\ UNCHANGED <<sessionVars, pets, records, supervisors, requests, nextId,
                   now, handlerVars, sweep, fnVars>>

-----------------------------------------------------------------------------
(* check_recurring_reminders, once a day *)

IdleSweep == [pc |-> "idle", recurring |-> <<>>, idx |-> 0]

\* pet['name'] raises inside the try when the pet is gone
RECURSIVE NextToConfirm(_, _, _)
NextToConfirm(recurring, i, petTable) ==
    IF i > Len(recurring) THEN i
    ELSE IF IsEmpty(get_pet_by_id(petTable, recurring[i].pet_id))
         THEN NextToConfirm(recurring, i + 1, petTable)
    ELSE i

StartSweep ==
    /\ sweep.pc = "idle"
    /\ \E rows \in get_recurring_reminders_to_confirm(reminders) :
          LET recurring == [i \in 1..Len(rows) |-> Read(rows[i])]
              i == NextToConfirm(recurring, 1, pets)
          IN sweep' = [pc |-> IF i <= Len(recurring) THEN "send" ELSE "idle",
                       recurring |-> recurring, idx |-> i]
    /\ UNCHANGED <<sessionVars, dbVars, now, handlerVars, job, buttons, fnVars>>

SweepAfter ==
    LET i == NextToConfirm(sweep.recurring, sweep.idx + 1, pets)
    IN IF i <= Len(sweep.recurring) THEN [sweep EXCEPT !.idx = i] ELSE IdleSweep

SendConfirmationFails ==
    /\ sweep.pc = "send"
    /\ sweep' = SweepAfter
    /\ UNCHANGED <<sessionVars, dbVars, now, handlerVars, job, buttons, fnVars>>

\* the owner holds the question with its three buttons
SendConfirmationOk ==
    /\ sweep.pc = "send"
    /\ buttons' = buttons \cup {<<"repeat", sweep.recurring[sweep.idx].id>>,
                                <<"repeat_pause", sweep.recurring[sweep.idx].id>>}
    /\ sweep' = SweepAfter
    /\ UNCHANGED <<sessionVars, dbVars, now, handlerVars, job, fnVars>>

-----------------------------------------------------------------------------
(* The buttons of a delivered reminder, of the repeat question and of the   *)
(* reminder's management card.  A handler that raises ends with the answer  *)
(* "error": the library logs the exception and drops the update.            *)

\* "reminder_done_<id>", "reminder_skip_<id>"
handle_reminder_action(u) ==
    /\ Pressed(u, "reminder_done") \/ Pressed(u, "reminder_skip")
    /\ LET reminder_id == inbox[u].arg
           status == IF inbox[u].tag = "reminder_done" THEN STATUS_DONE ELSE STATUS_SKIPPED
           marked == update_reminder_status(reminders, reminder_id, status)
           reminder == get_reminder_by_id(marked, reminder_id)
       IN IF ~IsEmpty(reminder) /\ reminder.is_daily /\ reminder.is_active
          THEN IF reminder.time_of_day = NoTime
               THEN \* None.split
                    /\ reminders' = marked
                    /\ UNCHANGED buttons
                    /\ Finish(u, "error")
               ELSE LET pet == get_pet_by_id(pets, reminder.pet_id)
                        user_tz == PetTimezone(pet)
                        tomorrow == now + MinutesPerDay
                        time == ParseTime(reminder.time_of_day)
                        user_remind_at ==
                            DateTime(DateOf(tomorrow), time.hours, time.minutes)
                        server_remind_at ==
                            convert_user_time_to_server(user_remind_at, user_tz)
                    IN /\ reminders' = reset_reminder_for_next_week(
                                           marked, reminder_id, server_remind_at)
                       /\ UNCHANGED buttons
                       /\ Finish(u, "repeats_tomorrow")
          ELSE IF ~IsEmpty(reminder) /\ reminder.is_recurring /\ reminder.is_active
          THEN /\ reminders' = marked
               /\ buttons' = buttons \cup {<<"repeat", reminder_id>>}
               /\ Finish(u, "ask_repeat")
          ELSE /\ reminders' = marked
               /\ UNCHANGED buttons
               /\ Finish(u, "marked")
    /\ UNCHANGED <<sessionVars, pets, records, supervisors, requests, nextId,
                   now, job, sweep, fnVars>>

\* "repeat_yes_<id>", "repeat_no_<id>", "repeat_pause_<id>"
handle_repeat_confirmation_callback(u) ==
    /\ Pressed(u, "repeat_yes") \/ Pressed(u, "repeat_no") \/ Pressed(u, "repeat_pause")
    /\ LET reminder_id == inbox[u].arg
           reminder == get_reminder_by_id(reminders, reminder_id)
       IN IF IsEmpty(reminder) \/ reminder.user_id # u
          THEN UNCHANGED reminders /\ Finish(u, "not_found")
          ELSE IF inbox[u].tag = "repeat_yes"
          THEN IF reminder.day_of_week = NoInt \/ reminder.time_of_day = NoTime
               THEN \* None - int, or None.split
                    UNCHANGED reminders /\ Finish(u, "error")
               ELSE LET pet == get_pet_by_id(pets, reminder.pet_id)
                        user_tz == PetTimezone(pet)
                        days == reminder.day_of_week - Weekday(now) + 7
                        days_ahead == IF days <= 0 THEN days + 7 ELSE days
                        next_date == now + days_ahead * MinutesPerDay
                        time == ParseTime(reminder.time_of_day)
                        user_remind_at ==
                            DateTime(DateOf(next_date), time.hours, time.minutes)
                        server_remind_at ==
                            convert_user_time_to_server(user_remind_at, user_tz)
                    IN /\ reminders' = reset_reminder_for_next_week(
                                           reminders, reminder_id, server_remind_at)
                       /\ Finish(u, "will_repeat")
          ELSE IF inbox[u].tag = "repeat_no"
          THEN /\ reminders' = disable_reminder_recurring(reminders, reminder_id)
               /\ Finish(u, "repeat_cancelled")
          ELSE /\ reminders' = toggle_reminder_active(reminders, reminder_id, FALSE)
               /\ Finish(u, "paused")
    /\ UNCHANGED <<sessionVars, pets, records, supervisors, requests, nextId,
                   now, job, sweep, buttons, fnVars>>

\* db.update_reminder(reminder_id, is_recurring=True)
update_reminder_is_recurring(reminderTable, reminder_id, is_recurring) ==
    IF reminder_id \in DOMAIN reminderTable
    THEN [reminderTable EXCEPT ![reminder_id].is_recurring = is_recurring]
    ELSE reminderTable

ManageTags == {"pause", "resume", "delete", "confirm_del", "no_recur", "yes_recur",
               "edit_text", "edit_time"}

\* "pause_<id>", "resume_<id>", "delete_<id>", "confirm_del_<id>",
\* "no_recur_<id>", "yes_recur_<id>", "edit_text_<id>", "edit_time_<id>"
handle_reminder_actions_callback(u) ==
    /\ \E tag \in ManageTags : Pressed(u, tag)
    /\ LET reminder_id == inbox[u].arg
           action == inbox[u].tag
           reminder == get_reminder_by_id(reminders, reminder_id)
           edits == [reminder_id |-> reminder_id]
       IN IF IsEmpty(reminder) \/ reminder.user_id # u
          THEN UNCHANGED <<reminders, sessionVars>> /\ Finish(u, "not_found")
          ELSE CASE action = "pause" ->
                      /\ reminders' = toggle_reminder_active(reminders, reminder_id, FALSE)
                      /\ UNCHANGED sessionVars /\ Finish(u, "paused")
                 [] action = "resume" ->
                      /\ reminders' = toggle_reminder_active(reminders, reminder_id, TRUE)
                      /\ UNCHANGED sessionVars /\ Finish(u, "resumed")
                 [] action = "delete" ->
                      UNCHANGED <<reminders, sessionVars>> /\ Finish(u, "confirm_delete")
                 [] action = "confirm_del" ->
                      /\ reminders' = delete_reminder(reminders, reminder_id)
                      /\ UNCHANGED sessionVars /\ Finish(u, "deleted")
                 [] action = "no_recur" ->
                      /\ reminders' = disable_reminder_recurring(reminders, reminder_id)
                      /\ UNCHANGED sessionVars /\ Finish(u, "recurring_off")
                 [] action = "yes_recur" ->
                      /\ reminders' = update_reminder_is_recurring(reminders, reminder_id, TRUE)
                      /\ UNCHANGED sessionVars /\ Finish(u, "recurring_on")
                 [] action = "edit_text" ->
                      /\ SetStore(set_user_state(Store, u, STATE_EDIT_REMINDER_TEXT, edits))
                      /\ UNCHANGED reminders /\ Finish(u, "ask_text")
                 [] action = "edit_time" ->
                      /\ SetStore(set_user_state(Store, u, STATE_EDIT_REMINDER_DAY, edits))
                      /\ UNCHANGED reminders /\ Finish(u, "ask_day")
    /\ UNCHANGED <<pets, records, supervisors, requests, nextId,
                   now, job, sweep, buttons, fnVars>>

-----------------------------------------------------------------------------
(* handle_record: where a text message goes *)

OnboardingTextStates ==
    {STATE_ONBOARDING_NAME, STATE_ONBOARDING_GENDER, STATE_ONBOARDING_BREED,
     STATE_ONBOARDING_BIRTHDATE, STATE_ONBOARDING_WEIGHT,
     STATE_ONBOARDING_VACCINATIONS, STATE_ONBOARDING_OWNER}

\* the handler, or the branch of handle_record itself, that takes the text
handle_record(user_id, text) ==
    LET state == get_user_state(Store, user_id)
    IN IF text # <<>> /\ text \in MenuLabels THEN "handle_menu_buttons"
       ELSE IF state = STATE_SUPERVISOR_TRANSCRIPTION THEN "handle_supervisor_transcription"
       ELSE IF state \in OnboardingTextStates /\ text # <<>> THEN "handle_onboarding"
       ELSE IF state = STATE_REMINDER_TEXT THEN "handle_reminder_flow"
       ELSE IF state = STATE_EDIT_REMINDER_TEXT THEN "handle_edit_reminder_text"
       ELSE IF state = STATE_REMINDER_TIME THEN "handle_reminder_time_input"
       ELSE IF state = STATE_EDIT_REMINDER_TIME THEN "handle_edit_time_input"
       ELSE IF state = STATE_EDIT_PET_NAME THEN "handle_edit_pet_name"
       ELSE IF state = STATE_NOTE_TEXT THEN "note_text"
       ELSE IF state = STATE_WAITING_FOR_PDF THEN "return"
       ELSE IF state = STATE_NOTE_TAG /\ text # <<>> THEN "handle_note_custom_tag_input"
       ELSE IF state = STATE_ONBOARDING_PHOTO THEN "onboarding_photo"
       ELSE "return"

\* u's update is a text that handle_record hands to handler
Texted(u, handler) ==
    /\ inbox[u].kind = "text"
    /\ pc[u] = "idle"
    /\ handle_record(u, inbox[u].txt) = handler

\* u's update is a photo that handle_record hands to handler
Photographed(u, handler) ==
    /\ inbox[u].kind = "photo"
    /\ pc[u] = "idle"
    /\ handle_record(u, inbox[u].txt) = handler

\* the body of export_command: the report of the pet is built and sent to
\* the user; send_document may raise, which the handler reports
ExportAnswer(u) ==
    IF IsEmpty(get_pet(pets, u))
    THEN Finish(u, "add_pet_first")
    ELSE \E sent \in BOOLEAN : Finish(u, IF sent THEN "export" ELSE "export_failed")

\* the five menu commands; only the note button touches the session
handle_menu_buttons(u) ==
    /\ Texted(u, "handle_menu_buttons")
    /\ LET text == inbox[u].txt
       IN IF text = BTN_PET THEN UNCHANGED sessionVars /\ Finish(u, "profile")
          ELSE IF text = BTN_REMINDERS
          THEN UNCHANGED sessionVars /\ Finish(u, "reminders_menu")
          ELSE IF text = BTN_HISTORY THEN UNCHANGED sessionVars /\ Finish(u, "history")
          ELSE IF text \in {BTN_EXPORT, BTN_TRANSCRIPT}
          THEN UNCHANGED sessionVars /\ ExportAnswer(u)
          ELSE IF IsEmpty(get_pet(pets, u))
          THEN UNCHANGED sessionVars /\ Finish(u, "add_pet_first")
          ELSE /\ SetStore(set_user_state(Store, u, STATE_NOTE_TEXT, EmptyDict))
               /\ Finish(u, "ask_note")
    /\ UNCHANGED <<dbVars, now, job, sweep, buttons, fnVars>>

\* update.message.photo[-1].file_id
FILE_ID == "file_id"

\* the branch of handle_record for STATE_NOTE_TEXT: the text, or the photo
\* with its caption, is kept in the session and the keyboard of tags is sent
note_text(u) ==
    /\ Texted(u, "note_text") \/ Photographed(u, "note_text")
    /\ LET text == inbox[u].txt
           photo_id == IF inbox[u].kind = "photo" THEN FILE_ID ELSE None
       IN IF text = <<>> /\ photo_id = None
          THEN UNCHANGED <<sessionVars, buttons>> /\ Finish(u, "ask_text_or_photo")
          ELSE /\ SetStore(set_user_state(Store, u, STATE_NOTE_TEXT,
                                          [text |-> text, photo_id |-> photo_id]))
               /\ buttons' = buttons \cup {<<"note_tag", 0>>}
               /\ Finish(u, "ask_tag")
    /\ UNCHANGED <<dbVars, now, job, sweep, fnVars>>

\* the branches of handle_record that change nothing
handle_record_return(u) ==
    /\ Texted(u, "return") \/ Photographed(u, "return")
    /\ Finish(u, "nothing")
    /\ UNCHANGED <<sessionVars, dbVars, now, job, sweep, buttons, fnVars>>

-----------------------------------------------------------------------------
(* Creating a reminder.  A date is the number of its day: date().isoformat() *)
(* and the int() of its three parts give the same date back.                 *)

QuickHour == 1 * MinutesPerHour      \* timedelta(hours=1)
QuickHours == 3 * MinutesPerHour     \* timedelta(hours=3)

\* /reminder
reminder_command(u) ==
    /\ Commanded(u, "reminder")
    /\ IF IsEmpty(get_pet(pets, u))
       THEN UNCHANGED sessionVars /\ Finish(u, "add_pet_first")
       ELSE /\ SetStore(set_user_state(Store, u, STATE_REMINDER_TEXT, EmptyDict))
            /\ Finish(u, "ask_text")
    /\ UNCHANGED <<dbVars, now, job, sweep, buttons, fnVars>>

\* the text of the reminder
handle_reminder_flow(u) ==
    /\ Texted(u, "handle_reminder_flow")
    /\ SetStore(set_user_state(Store, u, STATE_REMINDER_DAY, [text |-> inbox[u].txt]))
    /\ Finish(u, "ask_day")
    /\ UNCHANGED <<dbVars, now, job, sweep, buttons, fnVars>>

DayTags == {"day_today", "day_tomorrow", "day_quick_1h", "day_quick_3h", "day_week"}

\* "day_today", "day_tomorrow", "day_quick_1h", "day_quick_3h", "day_week_<d>"
handle_reminder_day_callback(u) ==
    /\ \E tag \in DayTags : Pressed(u, tag)
    /\ LET data == inbox[u].tag
           user_data == get_user_data(Store, u)
           pet == get_pet(pets, u)
           days_ahead == IF inbox[u].arg - Weekday(now) < 0
                         THEN inbox[u].arg - Weekday(now) + 7
                         ELSE inbox[u].arg - Weekday(now)
           day == CASE data = "day_today" -> Weekday(now)
                    [] data = "day_tomorrow" -> Weekday(now + MinutesPerDay)
                    [] OTHER -> inbox[u].arg
           date == CASE data = "day_today" -> DateOf(now)
                     [] data = "day_tomorrow" -> DateOf(now + MinutesPerDay)
                     [] OTHER -> DateOf(now + days_ahead * MinutesPerDay)
       IN IF IsEmpty(user_data) \/ "text" \notin DOMAIN user_data
          THEN UNCHANGED <<sessionVars, reminders, nextId>> /\ Finish(u, "start_over")
          ELSE IF IsEmpty(pet)
          THEN \* None.get
               UNCHANGED <<sessionVars, reminders, nextId>> /\ Finish(u, "error")
          ELSE IF data \in {"day_quick_1h", "day_quick_3h"}
          THEN LET remind_at == now + (IF data = "day_quick_1h" THEN QuickHour
                                                                ELSE QuickHours)
               IN /\ reminders' = create_reminder(reminders, nextId.reminders, u, pet.id,
                                      user_data.text, remind_at, NoInt, NoTime, FALSE, FALSE)
                  /\ nextId' = [nextId EXCEPT !.reminders = @ + 1]
                  /\ SetStore(clear_user_state(Store, u))
                  /\ Finish(u, "created")
          ELSE /\ SetStore(set_user_state(Store, u, STATE_REMINDER_TIME,
                               DictSet(DictSet(user_data, "day", day), "date", date)))
               /\ UNCHANGED <<reminders, nextId>>
               /\ Finish(u, "ask_time")
    /\ UNCHANGED <<pets, records, supervisors, requests, now, job, sweep, buttons, fnVars>>

IsDigit(c) == c \in {"0", "1", "2", "3", "4", "5", "6", "7", "8", "9"}

\* re.match(r'^(\d{1,2}):(\d{2})$', text)
TimeMatch(text) ==
    /\ Len(text) \in {4, 5}
    /\ text[Len(text) - 2] = ":"
    /\ \A i \in 1..Len(text) : i # Len(text) - 2 => IsDigit(text[i])

\* the time of the reminder, typed as HH:MM
handle_reminder_time_input(u) ==
    /\ Texted(u, "handle_reminder_time_input")
    /\ LET text == inbox[u].txt
           user_data == get_user_data(Store, u)
           hours == ParseInt(SubSeq(text, 1, Len(text) - 3))
           minutes == ParseInt(SubSeq(text, Len(text) - 1, Len(text)))
       IN IF IsEmpty(user_data) \/ "text" \notin DOMAIN user_data
                                \/ "date" \notin DOMAIN user_data
          THEN SetStore(clear_user_state(Store, u)) /\ Finish(u, "start_over")
          ELSE IF ~TimeMatch(text)
          THEN UNCHANGED sessionVars /\ Finish(u, "bad_format")
          ELSE IF hours < 0 \/ hours > 23 \/ minutes < 0 \/ minutes > 59
          THEN UNCHANGED sessionVars /\ Finish(u, "bad_time")
          ELSE /\ SetStore(set_user_state(Store, u, STATE_REMINDER_RECURRING,
                               DictSet(user_data, "time", FormatTime(hours, minutes))))
               /\ Finish(u, "ask_recurring")
    /\ UNCHANGED <<dbVars, now, job, sweep, buttons, fnVars>>

RecurringTags == {"recurring_no", "recurring_daily", "recurring_weekly"}

\* "recurring_no", "recurring_daily", "recurring_weekly"
handle_recurring_callback(u) ==
    /\ \E tag \in RecurringTags : Pressed(u, tag)
    /\ LET data == inbox[u].tag
           user_data == get_user_data(Store, u)
           pet == get_pet(pets, u)
       IN IF IsEmpty(user_data) \/ "text" \notin DOMAIN user_data
                                \/ "date" \notin DOMAIN user_data
                                \/ "time" \notin DOMAIN user_data
          THEN UNCHANGED <<sessionVars, reminders, nextId>> /\ Finish(u, "start_over")
          ELSE IF IsEmpty(pet)
          THEN \* None.get
               UNCHANGED <<sessionVars, reminders, nextId>> /\ Finish(u, "error")
          ELSE LET time == ParseTime(user_data.time)
                   user_remind_at == DateTime(user_data.date, time.hours, time.minutes)
                   server_remind_at ==
                       convert_user_time_to_server(user_remind_at, pet.timezone)
               IN /\ reminders' = create_reminder(reminders, nextId.reminders, u, pet.id,
                                      user_data.text, server_remind_at, user_data.day,
                                      user_data.time, data = "recurring_weekly",
                                      data = "recurring_daily")
                  /\ nextId' = [nextId EXCEPT !.reminders = @ + 1]
                  /\ SetStore(clear_user_state(Store, u))
                  /\ Finish(u, "created")
    /\ UNCHANGED <<pets, records, supervisors, requests, now, job, sweep, buttons, fnVars>>

-----------------------------------------------------------------------------
(* The hand-off of a transcription request to a supervisor *)

REQUEST_PENDING == "pending"
REQUEST_IN_PROGRESS == "in_progress"
REQUEST_COMPLETED == "completed"

\* a row of transcription_requests as create_transcription_request inserts it
Request(id, user_id, pet_id) ==
    [id |-> id, user_id |-> user_id, pet_id |-> pet_id, pdf_file_id |-> "pdf",
     status |-> REQUEST_PENDING, supervisor_id |-> NoInt, transcription |-> <<>>]

\* INSERT OR IGNORE INTO supervisors: a row of the user stays as it is
add_supervisor(supervisorTable, id, user_id) ==
    IF user_id \in DOMAIN supervisorTable THEN supervisorTable
    ELSE Put(supervisorTable, user_id, [id |-> id, user_id |-> user_id])

remove_supervisor(supervisorTable, user_id) == Pop(supervisorTable, user_id)

is_supervisor(supervisorTable, user_id) == user_id \in DOMAIN supervisorTable

get_supervisor_by_user_id(supervisorTable, user_id) ==
    IF user_id \in DOMAIN supervisorTable THEN supervisorTable[user_id] ELSE EmptyDict

get_transcription_request(requestTable, request_id) ==
    IF request_id \in DOMAIN requestTable THEN requestTable[request_id] ELSE EmptyDict

assign_transcription_to_supervisor(requestTable, request_id, supervisor_id) ==
    IF request_id \in DOMAIN requestTable
    THEN [requestTable EXCEPT ![request_id].status = REQUEST_IN_PROGRESS,
                              ![request_id].supervisor_id = supervisor_id]
    ELSE requestTable

complete_transcription_request(requestTable, request_id, transcription) ==
    IF request_id \in DOMAIN requestTable
    THEN [requestTable EXCEPT ![request_id].status = REQUEST_COMPLETED,
                              ![request_id].transcription = transcription]
    ELSE requestTable

\* INSERT INTO records
create_record(recordTable, id, pet_id, text, photo_id, tag, is_visit) ==
    Put(recordTable, id,
        [id |-> id, pet_id |-> pet_id, text |-> text, photo_id |-> photo_id,
         tag |-> tag, is_visit |-> is_visit])

\* /supervisor_on
supervisor_on_command(u) ==
    /\ Commanded(u, "supervisor_on")
    /\ supervisors' = add_supervisor(supervisors, nextId.supervisors, u)
    /\ nextId' = IF u \in DOMAIN supervisors THEN nextId
                 ELSE [nextId EXCEPT !.supervisors = @ + 1]
    /\ Finish(u, "supervisor_on")
    /\ UNCHANGED <<sessionVars, pets, records, reminders, requests, now, job, sweep,
                   buttons, fnVars>>

\* a faulty variant: the session of the user stays as it is
supervisor_off_command_keeps_session(u) ==
    /\ Commanded(u, "supervisor_off")
    /\ supervisors' = remove_supervisor(supervisors, u)
    /\ Finish(u, "supervisor_off")
    /\ UNCHANGED <<sessionVars, pets, records, reminders, requests, nextId, now, job,
                   sweep, buttons, fnVars>>

\* /supervisor_off
supervisor_off_command(u) ==
    /\ Commanded(u, "supervisor_off")
    /\ supervisors' = remove_supervisor(supervisors, u)
    /\ SetStore(clear_user_state(Store, u))
    /\ Finish(u, "supervisor_off")
    /\ UNCHANGED <<pets, records, reminders, requests, nextId, now, job, sweep,
                   buttons, fnVars>>

\* a faulty variant: a request somebody has taken counts as available
RequestAvailable_taken_too(request) == ~IsEmpty(request)

\* not (not request or request["status"] != "pending")
RequestAvailable(request) == ~IsEmpty(request) /\ request.status = REQUEST_PENDING

\* "take_request_<id>", up to the await of send_document
handle_take_request_callback(u) ==
    /\ Pressed(u, "take_request")
    /\ LET request_id == inbox[u].arg
           request == get_transcription_request(requests, request_id)
           supervisor == get_supervisor_by_user_id(supervisors, u)
       IN IF ~is_supervisor(supervisors, u)
          THEN UNCHANGED requests /\ Finish(u, "no_rights")
          ELSE IF ~RequestAvailable(request)
          THEN UNCHANGED requests /\ Finish(u, "already_taken")
          ELSE /\ requests' = assign_transcription_to_supervisor(
                                  requests, request_id, supervisor.id)
               /\ IF IsEmpty(get_pet_by_id(pets, request.pet_id))
                  THEN \* pet['name'] raises inside the try
                       Finish(u, "document_error")
                  ELSE Suspend(u, "send_document",
                               [request_id |-> request_id, user_id |-> request.user_id,
                                pet_id |-> request.pet_id])
    /\ UNCHANGED <<sessionVars, pets, records, reminders, supervisors, nextId, now,
                   job, sweep, buttons, fnVars>>

\* send_document returned: the supervisor is set to write the transcription
take_request_document_sent(u) ==
    /\ pc[u] = "send_document"
    /\ SetStore(set_user_state(Store, u, STATE_SUPERVISOR_TRANSCRIPTION, frame[u]))
    /\ Finish(u, "taken")
    /\ UNCHANGED <<dbVars, now, job, sweep, buttons, fnVars>>

\* send_document raised: the except branch reports it
take_request_document_failed(u) ==
    /\ pc[u] = "send_document"
    /\ Finish(u, "document_error")
    /\ UNCHANGED <<sessionVars, dbVars, now, job, sweep, buttons, fnVars>>

\* the tag of the record of a transcription
VISIT_TAG == "vizit k vrachu"         \* "визит к врачу"

\* the text of a supervisor at work on a request, up to the await of the
\* send_message to the owner
handle_supervisor_transcription(u) ==
    /\ Texted(u, "handle_supervisor_transcription")
    /\ LET transcription == inbox[u].txt
           user_data == get_user_data(Store, u)
       IN IF \E key \in {"request_id", "user_id", "pet_id"} : key \notin DOMAIN user_data
          THEN /\ UNCHANGED <<requests, records, nextId>>
               /\ Finish(u, "take_again")
          ELSE /\ requests' = complete_transcription_request(
                                  requests, user_data.request_id, transcription)
               /\ records' = create_record(records, nextId.records, user_data.pet_id,
                                           transcription, None, VISIT_TAG, TRUE)
               /\ nextId' = [nextId EXCEPT !.records = @ + 1]
               /\ Suspend(u, "notify_owner", user_data)
    /\ SetStore(clear_user_state(Store, u))
    /\ UNCHANGED <<pets, reminders, supervisors, now, job, sweep, buttons, fnVars>>

\* send_message to the owner returned
transcription_owner_notified(u) ==
    /\ pc[u] = "notify_owner"
    /\ ~IsEmpty(get_pet_by_id(pets, frame[u].pet_id))
    /\ Finish(u, "transcription_saved")
    /\ UNCHANGED <<sessionVars, dbVars, now, job, sweep, buttons, fnVars>>

\* send_message to the owner raised, or pet['name'] did: the except branch
\* logs it
transcription_owner_unreachable(u) ==
    /\ pc[u] = "notify_owner"
    /\ Finish(u, "transcription_saved_owner_unreachable")
    /\ UNCHANGED <<sessionVars, dbVars, now, job, sweep, buttons, fnVars>>

-----------------------------------------------------------------------------
(* The pets table.  user_id is UNIQUE: the table is keyed by the owner. *)

\* INSERT OR REPLACE INTO pets (user_id, name, type, timezone): the other
\* columns of the new row are NULL
create_pet(petTable, id, user_id, name, pet_type, timezone) ==
    Put(petTable, user_id,
        [id |-> id, user_id |-> user_id, name |-> name, type |-> pet_type,
         timezone |-> timezone, gender |-> None, breed |-> None,
         birth_date |-> None, weight |-> None, vaccinations |-> None,
         photo_id |-> None, owner_name |-> None])

\* update_pet_details(user_id, <column>=value), one column at a time
update_pet_details(petTable, user_id, column, value) ==
    IF user_id \in DOMAIN petTable
    THEN [petTable EXCEPT ![user_id][column] = value]
    ELSE petTable

\* UPDATE pets SET name = ? WHERE user_id = ?
update_pet_name(petTable, user_id, name) ==
    IF user_id \in DOMAIN petTable
    THEN [petTable EXCEPT ![user_id].name = name]
    ELSE petTable

-----------------------------------------------------------------------------
(* The states every specification starts from *)

\* a row of pets: the row create_pet writes
Pet(id, user_id, timezone) ==
    create_pet(EmptyDict, id, user_id, <<"Rex">>, "dog", timezone)[user_id]

\* nothing is in flight, no job runs, and the session store is empty: the
\* process has just started
Started ==
    /\ USER_STATES = EmptyDict
    /\ USER_DATA = EmptyDict
    /\ inbox = [u \in Users |-> NoUpdate]
    /\ pc = [u \in Users |-> "idle"]
    /\ frame = [u \in Users |-> EmptyDict]
    /\ reply = [u \in Users |-> "none"]
    /\ job = IdleJob
    /\ sweep = IdleSweep
    /\ buttons = {}
    /\ now = DateTime(0, 10, 0)

\* the conversions are not in use
TzIdle == tzT = 0 /\ tzOff = SERVER_TIMEZONE /\ tzOut = 0 /\ tzPc = "off"

\* auto_detect_tag is not in use
TagIdle == tagText = <<>> /\ tagOut = "off"

\* no pure function is in use
FnIdle == TzIdle /\ TagIdle

\* the tables hold no row but the pet of user 1, who went through the
\* onboarding in an earlier run with the time zone timezone
OneOwner(timezone) ==
    /\ pets = [u \in {1} |-> Pet(1, 1, timezone)]
    /\ records = EmptyDict
    /\ reminders = EmptyDict
    /\ supervisors = EmptyDict
    /\ requests = EmptyDict
    /\ nextId = [pets |-> 2, records |-> 1, reminders |-> 1, supervisors |-> 1,
                 requests |-> 1]

\* the reminders of u
RemindersOf(u) == {id \in DOMAIN reminders : reminders[id].user_id = u}

\* a reminder may still be created
CanCreate == nextId.reminders <= MaxReminders

-----------------------------------------------------------------------------
(* SpecPass: the delivery pass next to the owner's one-off reminders *)

InitPass == Started /\ FnIdle /\ OneOwner(SERVER_TIMEZONE)

\* the clock is looked at in the morning, once a day
PassClock == {DateTime(d, 10, 0) : d \in 0..MaxDay}

\* what the owner u may send
PassUpdates(u) ==
    {Command("reminder") : x \in {1} \cap {y \in {1} : CanCreate}}
    \cup {Text(<<"walk">>) : x \in {1} \cap
              {y \in {1} : get_user_state(Store, u) = STATE_REMINDER_TEXT}}
    \cup {Callback("day_quick_1h", 0) : x \in {1} \cap
              {y \in {1} : get_user_state(Store, u) = STATE_REMINDER_DAY /\ CanCreate}}
    \cup {Callback(tag, id) : tag \in {"pause", "resume", "confirm_del"},
                              id \in RemindersOf(u)}
    \cup {Callback(tag, b[2]) : tag \in {"reminder_done", "reminder_skip"},
                                b \in {c \in buttons : c[1] = "reminder"}}

ReceivePass ==
    /\ \E u \in DOMAIN pets : \E update \in PassUpdates(u) : Arrive(u, update)
    /\ UNCHANGED <<sessionVars, dbVars, now, job, sweep, buttons, fnVars>>

NextPass ==
    \/ ReceivePass
    \/ Tick(PassClock)
    \/ StartPass
    \/ SendReminderOk
    \/ SendReminderFails
    \/ \E u \in Users : reminder_command(u)
    \/ \E u \in Users : handle_reminder_flow(u)
    \/ \E u \in Users : handle_reminder_day_callback(u)
    \/ \E u \in Users : handle_reminder_actions_callback(u)
    \/ \E u \in Users : handle_reminder_action(u)

SpecPass == InitPass /\ [][NextPass]_vars

-----------------------------------------------------------------------------
(* The delivery pass: C2, C3, C4 *)

\* the reminder id is due, not sent and pending in the table at the time t
DueUnsentPending(reminderTable, id, t) ==
    /\ id \in DOMAIN reminderTable
    /\ reminderTable[id].remind_at <= t
    /\ ~reminderTable[id].sent
    /\ reminderTable[id].status = STATUS_PENDING

\* how often the list holds the reminder id
Occurrences(list, id) == Cardinality({i \in 1..Len(list) : list[i].id = id})

\* the step is a poll: the job reads its list
Polls == job.pc = "idle" /\ job' # job

\* the step ends a send_message of the job by an exception
EmissionFails == job.pc = "send" /\ job' # job /\ job'.delivered = 0

\* the step starts the send_message for the item job'.idx of the list
Emits == job'.pc = "send" /\ (job.pc = "idle" \/ job'.idx # job.idx)

\* C2: every poll returns each reminder that is due, not sent and pending
\* exactly once, and returns no reminder that mark_reminder_sent has marked.
C2_DueReturnedUntilSent ==
    [][Polls =>
          \A id \in DOMAIN reminders :
              Occurrences(job'.pending, id) =
                  IF DueUnsentPending(reminders, id, now) THEN 1 ELSE 0]_vars

\* a poll has returned one reminder and left out another, which is due and
\* pending and was marked sent by an earlier pass
C2_Witness ==
    /\ job.pc = "send"
    /\ job.delivered = 0
    /\ \E id \in DOMAIN reminders :
          /\ reminders[id].sent
          /\ reminders[id].remind_at <= now
          /\ reminders[id].status = STATUS_PENDING
          /\ Occurrences(job.pending, id) = 0

\* C3: an emission that fails changes no reminder, so that the reminder stays
\* unsent and the next poll selects it again if it is still due and pending;
\* a reminder becomes sent only in the step in which its emission succeeds.
C3_SentOnlyAfterEmission ==
    [][/\ EmissionFails =>
             /\ reminders' = reminders
             /\ LET id == job.pending[job.idx].id
                IN DueUnsentPending(reminders, id, now) =>
                       id \in PendingReminderIds(reminders', now')
       /\ \A id \in DOMAIN reminders \cap DOMAIN reminders' :
             ~reminders[id].sent /\ reminders'[id].sent =>
                 /\ job.pc = "send"
                 /\ job.pending[job.idx].id = id
                 /\ job'.delivered = id]_vars

\* the emission of the first reminder of the list has failed: the pass is at
\* its second item, and the first, which it tried to send, is still unsent
C3_Witness ==
    /\ job.pc = "send"
    /\ job.idx = 2
    /\ job.delivered = 0
    /\ job.pending[1].is_active
    /\ job.pending[1].id \in DOMAIN reminders
    /\ ~reminders[job.pending[1].id].sent

\* C4: whenever the pass emits a notification, the stored reminder exists, is
\* due, not sent, pending and active at that moment.
C4_EmitsOnlyCurrent ==
    [][Emits =>
          LET id == job'.pending[job'.idx].id
          IN /\ DueUnsentPending(reminders', id, now')
             /\ reminders'[id].is_active]_vars

-----------------------------------------------------------------------------
(* SpecRecur: daily and weekly reminders, their dispositions and the sweep *)

\* the time zone of the owner's pet: the one offset with a half hour
RecurZone == TIMEZONES[19]

InitRecur == Started /\ FnIdle /\ OneOwner(RecurZone)

\* the clock is looked at every morning, and late in the evening of day 0
RecurClock == {DateTime(d, 10, 0) : d \in 0..MaxDay} \cup {DateTime(0, 23, 30)}

\* a reminder may still be created
CanCreateRepeating == nextId.reminders <= MaxRepeating

\* what the owner u may send
RecurUpdates(u) ==
    LET state == get_user_state(Store, u)
    IN {Command("reminder") : x \in {y \in {1} : CanCreateRepeating}}
       \cup {Text(<<"walk">>) : x \in {y \in {1} : state = STATE_REMINDER_TEXT}}
       \cup {Callback("day_quick_1h", 0) :
                 x \in {y \in {1} : state = STATE_REMINDER_DAY /\ CanCreateRepeating}}
       \cup {Callback("day_today", 0) : x \in {y \in {1} : state = STATE_REMINDER_DAY}}
       \cup {Callback("day_week", 0) : x \in {y \in {1} : state = STATE_REMINDER_DAY}}
       \cup {Text(FormatTime(0, 5)) : x \in {y \in {1} : state = STATE_REMINDER_TIME}}
       \cup {Callback(tag, 0) :
                 tag \in {y \in {"recurring_daily", "recurring_weekly"} :
                             state = STATE_REMINDER_RECURRING /\ CanCreateRepeating}}
       \cup {Callback("yes_recur", id) : id \in RemindersOf(u)}
       \cup {Callback(tag, b[2]) : tag \in {"reminder_done", "reminder_skip"},
                                   b \in {c \in buttons : c[1] = "reminder"}}
       \cup {Callback("repeat_yes", b[2]) : b \in {c \in buttons : c[1] = "repeat"}}

ReceiveRecur ==
    /\ \E u \in DOMAIN pets : \E update \in RecurUpdates(u) : Arrive(u, update)
    /\ UNCHANGED <<sessionVars, dbVars, now, job, sweep, buttons, fnVars>>

NextRecur ==
    \/ ReceiveRecur
    \/ Tick(RecurClock)
    \/ StartPass
    \/ SendReminderOk
    \/ StartSweep
    \/ SendConfirmationOk
    \/ SendConfirmationFails
    \/ \E u \in Users : reminder_command(u)
    \/ \E u \in Users : handle_reminder_flow(u)
    \/ \E u \in Users : handle_reminder_day_callback(u)
    \/ \E u \in Users : handle_reminder_time_input(u)
    \/ \E u \in Users : handle_recurring_callback(u)
    \/ \E u \in Users : handle_reminder_actions_callback(u)
    \/ \E u \in Users : handle_reminder_action(u)
    \/ \E u \in Users : handle_repeat_confirmation_callback(u)

SpecRecur == InitRecur /\ [][NextRecur]_vars

-----------------------------------------------------------------------------
(* Daily and weekly reminders: C5, C6, C7 *)

\* the step handles the press tag of the user u
Handles(u, tag) == Pressed(u, tag) /\ inbox'[u] = NoUpdate

\* the minutes after midnight of a stored time of day
MinuteOfDay(time_of_day) ==
    ParseTime(time_of_day).hours * MinutesPerHour + ParseTime(time_of_day).minutes

\* the offset of the pet of a reminder from the server, in minutes
AheadOfServer(reminder) ==
    parse_timezone_offset(get_pet_by_id(pets, reminder.pet_id).timezone)
        - parse_timezone_offset(SERVER_TIMEZONE)

\* C5: when "done" or "skip" is handled for a delivered reminder that is daily
\* and active, the table holds the same ids, and the row of the reminder is
\* re-armed in place: sent is false, the status is pending, and the reminder
\* is due at its time of day on the day after the handling day, moved from
\* the time zone of the pet to that of the server.
C5_DailyRearmedForTomorrow ==
    [][\A u \in Users : \A tag \in {"reminder_done", "reminder_skip"} :
          LET id == inbox[u].arg
          IN (/\ Handles(u, tag)
              /\ id \in DOMAIN reminders
              /\ reminders[id].sent
              /\ reminders[id].is_daily
              /\ reminders[id].is_active)
             => /\ DOMAIN reminders' = DOMAIN reminders
                /\ reminders'[id] =
                       [reminders[id] EXCEPT
                           !.sent = FALSE,
                           !.status = STATUS_PENDING,
                           !.remind_at =
                               (DateOf(now) + 1) * MinutesPerDay
                                   + MinuteOfDay(reminders[id].time_of_day)
                                   - AheadOfServer(reminders[id])]]_vars

\* a daily reminder was delivered, answered, and re-armed for a later time
C5_Witness ==
    \E u \in Users : \E id \in DOMAIN reminders :
        /\ reply[u] = "repeats_tomorrow"
        /\ reminders[id].is_daily
        /\ ~reminders[id].sent
        /\ reminders[id].status = STATUS_PENDING
        /\ reminders[id].remind_at > now
        /\ <<"reminder", id>> \in buttons

\* C6: when "yes" to the repeat question is handled for a weekly reminder, the
\* row is re-armed in place, sent false and status pending, and is due in the
\* owner's time on the stored day of the week, at the stored time of day, in
\* the calendar week after the one of the handling day, 1 to 13 days ahead.
C6_WeeklyRearmedNextWeek ==
    [][\A u \in Users :
          LET id == inbox[u].arg
          IN (/\ Handles(u, "repeat_yes")
              /\ id \in DOMAIN reminders
              /\ reminders[id].user_id = u
              /\ reminders[id].is_recurring)
             => /\ id \in DOMAIN reminders'
                /\ ~reminders'[id].sent
                /\ reminders'[id].status = STATUS_PENDING
                /\ LET due == reminders'[id].remind_at + AheadOfServer(reminders[id])
                   IN /\ Weekday(due) = reminders[id].day_of_week
                      /\ due % MinutesPerDay = MinuteOfDay(reminders[id].time_of_day)
                      /\ DateOf(due) - DateOf(now) \in 1..13
                      /\ DateOf(due) \div 7 = DateOf(now) \div 7 + 1]_vars

\* the reminder id is weekly, with its day of the week, and active, was
\* delivered, and nobody answered
DeliveredUnanswered(id) ==
    /\ reminders[id].is_recurring
    /\ reminders[id].day_of_week # NoInt
    /\ ~reminders[id].is_daily
    /\ reminders[id].is_active
    /\ reminders[id].sent
    /\ reminders[id].status = STATUS_PENDING

\* the step is a run of the daily sweep: the job reads its list
Sweeps == sweep.pc = "idle" /\ sweep' # sweep

\* C7: every run of the daily sweep selects each weekly, active reminder that
\* was delivered and that its owner has not answered.
C7_SweepSelectsUnanswered ==
    [][Sweeps =>
          \A id \in DOMAIN reminders :
              DeliveredUnanswered(id) => Occurrences(sweep'.recurring, id) = 1]_vars

-----------------------------------------------------------------------------
(* SpecTz: a time of the owner goes to the server's time and back *)

\* "+HH:MM" or "-HH:MM"
Offset(sign, hours, minutes) == <<sign>> \o FormatTime(hours, minutes)

\* the offsets of whole and half hours from -12:00 to +12:00
ValidOffsets ==
    {Offset(sign, hours, minutes) :
        sign \in {"+", "-"}, hours \in 0..11, minutes \in {0, 30}}
    \cup {Offset("+", 12, 0), Offset("-", 12, 0)}

\* the wall-clock times that are converted
WallClockTimes ==
    {DateTime(d, hours, minutes) :
        d \in 0..MaxDay, hours \in {0, 2, 9, 21, 23}, minutes \in {0, 29, 59}}

\* the tables are empty
NoRows ==
    /\ pets = EmptyDict
    /\ records = EmptyDict
    /\ reminders = EmptyDict
    /\ supervisors = EmptyDict
    /\ requests = EmptyDict
    /\ nextId = [pets |-> 1, records |-> 1, reminders |-> 1, supervisors |-> 1,
                 requests |-> 1]

InitTz ==
    /\ Started
    /\ NoRows
    /\ tzT \in WallClockTimes
    /\ tzOff \in ValidOffsets
    /\ tzOut = tzT
    /\ tzPc = "user"
    /\ TagIdle

\* convert_user_time_to_server(t, offset)
ToServer ==
    /\ tzPc = "user"
    /\ tzOut' = convert_user_time_to_server(tzOut, tzOff)
    /\ tzPc' = "server"
    /\ UNCHANGED <<sessionVars, dbVars, now, handlerVars, job, sweep, buttons, tzT, tzOff, tagVars>>

\* convert_server_time_to_user(., offset) of the result
ToUser ==
    /\ tzPc = "server"
    /\ tzOut' = convert_server_time_to_user(tzOut, tzOff)
    /\ tzPc' = "back"
    /\ UNCHANGED <<sessionVars, dbVars, now, handlerVars, job, sweep, buttons, tzT, tzOff, tagVars>>

NextTz == ToServer \/ ToUser

SpecTz == InitTz /\ [][NextTz]_vars

\* C8: for every time t and every valid offset, the time of the server for t
\* converted back to the time of the owner is t.
C8_RoundTrip == tzPc = "back" => tzOut = tzT

\* a time of the night went through both conversions with the offset -09:30
C8_Witness ==
    /\ tzPc = "back"
    /\ tzOff = Offset("-", 9, 30)
    /\ tzT % MinutesPerDay = 2 * MinutesPerHour + 29
    /\ tzOut = tzT

-----------------------------------------------------------------------------
(* SpecHandoff: supervisors take the waiting requests and transcribe them.  *)
(* The requests are rows the database file holds when the process starts:   *)
(* create_transcription_request is called by handle_pdf_for_transcription   *)
(* alone, in STATE_WAITING_FOR_PDF, a state no handler of bot.py sets.       *)

InitHandoff ==
    /\ Started
    /\ FnIdle
    /\ pets = [u \in {1} |-> Pet(1, 1, SERVER_TIMEZONE)]
    /\ records = EmptyDict
    /\ reminders = EmptyDict
    /\ supervisors = EmptyDict
    /\ requests = [id \in 1..MaxRequests |-> Request(id, 1, 1)]
    /\ nextId = [pets |-> 2, records |-> 1, reminders |-> 1, supervisors |-> 1,
                 requests |-> MaxRequests + 1]

\* what the user u may send: a supervisor holds the buttons of the requests,
\* and one at work writes the transcription or touches the note button
HandoffUpdates(u) ==
    {Command("supervisor_on") : x \in {y \in {1} : u \notin DOMAIN supervisors}}
    \cup {Callback("take_request", id) :
              id \in {y \in DOMAIN requests : u \in DOMAIN supervisors}}
    \cup {Text(txt) : txt \in {y \in {<<"diagnosis">>, BTN_NOTE} :
              get_user_state(Store, u) = STATE_SUPERVISOR_TRANSCRIPTION}}

ReceiveHandoff ==
    /\ \E u \in Users : \E update \in HandoffUpdates(u) : Arrive(u, update)
    /\ UNCHANGED <<sessionVars, dbVars, now, job, sweep, buttons, fnVars>>

NextHandoff ==
    \/ ReceiveHandoff
    \/ \E u \in Users : supervisor_on_command(u)
    \/ \E u \in Users : handle_take_request_callback(u)
    \/ \E u \in Users : take_request_document_sent(u)
    \/ \E u \in Users : take_request_document_failed(u)
    \/ \E u \in Users : handle_menu_buttons(u)
    \/ \E u \in Users : handle_supervisor_transcription(u)
    \/ \E u \in Users : transcription_owner_notified(u)
    \/ \E u \in Users : transcription_owner_unreachable(u)

SpecHandoff == InitHandoff /\ [][NextHandoff]_vars

-----------------------------------------------------------------------------
(* The hand-off: C1, C10 *)

\* the step runs the claim of the supervisor u up to its end or its await
Claims(u) ==
    /\ Pressed(u, "take_request")
    /\ u \in DOMAIN supervisors
    /\ inbox'[u] = NoUpdate \/ pc'[u] = "send_document"

\* C1: a claim of a supervisor on a pending request moves the request to
\* in_progress with this supervisor assigned and changes no other request; a
\* claim on a request that is not pending is answered "already taken" and
\* changes neither the requests nor the session of the claimer; and a request
\* that is not pending never becomes pending again nor changes its supervisor.
\* So of two claims on one pending request, in any interleaving, exactly one
\* wins.
C1_ExactlyOneClaimWins ==
    [][/\ \A u \in Users :
             Claims(u) =>
                 LET id == inbox[u].arg
                 IN IF id \in DOMAIN requests /\ requests[id].status = REQUEST_PENDING
                    THEN /\ requests' =
                                [requests EXCEPT
                                    ![id].status = REQUEST_IN_PROGRESS,
                                    ![id].supervisor_id = supervisors[u].id]
                         /\ reply'[u] # "already_taken"
                    ELSE /\ reply'[u] = "already_taken"
                         /\ requests' = requests
                         /\ USER_STATES' = USER_STATES
                         /\ USER_DATA' = USER_DATA
       /\ \A id \in DOMAIN requests :
             requests[id].status # REQUEST_PENDING =>
                 /\ id \in DOMAIN requests'
                 /\ requests'[id].status # REQUEST_PENDING
                 /\ requests'[id].supervisor_id = requests[id].supervisor_id]_vars

\* two supervisors claimed one request: the winner still waits for
\* send_document to return, and the other, at work on another request, was
\* answered "already taken" and kept its session
C1_Witness ==
    \E u, v \in Users : \E id \in DOMAIN requests :
        /\ u # v
        /\ pc[u] = "send_document"
        /\ frame[u].request_id = id
        /\ requests[id].status = REQUEST_IN_PROGRESS
        /\ requests[id].supervisor_id = supervisors[u].id
        /\ reply[v] = "already_taken"
        /\ get_user_state(Store, v) = STATE_SUPERVISOR_TRANSCRIPTION
        /\ get_user_data(Store, v).request_id # id

\* C10: when a text that is a label of the main menu is handled for a user in
\* the supervisor-transcription state, the request of the session is
\* completed with this text, and the session is cleared, not moved on by the
\* menu command.
C10_TranscriptionBeforeMenu ==
    [][\A u \in Users :
          (/\ inbox[u].kind = "text"
           /\ inbox[u].txt \in MenuLabels
           /\ pc[u] = "idle"
           /\ get_user_state(Store, u) = STATE_SUPERVISOR_TRANSCRIPTION
           /\ (inbox'[u] = NoUpdate \/ pc'[u] # "idle"))
          => LET id == get_user_data(Store, u).request_id
             IN /\ requests'[id].status = REQUEST_COMPLETED
                /\ requests'[id].transcription = inbox[u].txt
                /\ pc'[u] = "notify_owner"
                /\ get_user_state([states |-> USER_STATES', data |-> USER_DATA'], u)
                       = STATE_NORMAL]_vars

-----------------------------------------------------------------------------
(* The session store: C9 *)

\* the session store after the step
StoreAfter == [states |-> USER_STATES', data |-> USER_DATA']

\* C9: after a handler has called set_user_state without data, here
\* reminder_command with STATE_REMINDER_TEXT, get_user_data of the user is
\* empty.
C9_SetWithoutDataEmptiesData ==
    [][\A u \in Users :
          (/\ Commanded(u, "reminder")
           /\ inbox'[u] = NoUpdate
           /\ reply'[u] = "ask_text")
          => /\ get_user_state(StoreAfter, u) = STATE_REMINDER_TEXT
             /\ IsEmpty(get_user_data(StoreAfter, u))]_vars

-----------------------------------------------------------------------------
(* The onboarding.  The texts are lower case and carry no blanks at their    *)
(* ends, so strip() and lower() leave them as they are.                      *)

\* "пропустить": startswith("пропус") looks at its first six characters,
\* which are the first symbol of the text
\* a text is a sequence of pieces; a piece is written in small letters, with
\* a capital first letter or in capitals, and pieces without letters have
\* one writing
Capitalized == [Propus |-> "propus", Tit |-> "tit", M |-> "m", Zh |-> "zh",
                Privivka |-> "privivka", Analiz |-> "analiz"]
Capitals == [PROPUS |-> "propus", TIT |-> "tit", KORM |-> "korm"]

\* a faulty variant: the letters are left as they are
lower_keeps_case(text) == text

\* str.lower()
lower(text) ==
    [i \in 1..Len(text) |->
        IF text[i] \in DOMAIN Capitalized THEN Capitalized[text[i]]
        ELSE IF text[i] \in DOMAIN Capitals THEN Capitals[text[i]]
        ELSE text[i]]

\* "пропустить", of which the steps test the first six letters
SKIP == <<"propus", "tit">>

\* text.lower().startswith("пропус")
StartsWithSkip(text) == Len(text) > 0 /\ lower(text)[1] = "propus"

GENDER_M == "m"                      \* "м"
GENDER_F == "zh"                     \* "ж"
MaleWords == {<<"m">>, <<"malchik">>, <<"samets">>}
FemaleWords == {<<"zh">>, <<"devochka">>, <<"samka">>}

\* gender of handle_onboarding
GenderOf(gender_norm) ==
    IF gender_norm \in MaleWords THEN GENDER_M
    ELSE IF gender_norm \in FemaleWords THEN GENDER_F
    ELSE None

AllDigits(part) == \A i \in 1..Len(part) : IsDigit(part[i])

\* re.match(r"^\d{1,2}\.\d{1,2}\.\d{4}$", text)
BirthDateMatch(text) ==
    LET parts == Split(text, ".")
    IN /\ Len(parts) = 3
       /\ \A i \in 1..3 : AllDigits(parts[i])
       /\ Len(parts[1]) \in {1, 2}
       /\ Len(parts[2]) \in {1, 2}
       /\ Len(parts[3]) = 4

\* text.replace(",", ".")
CommaToPoint(text) == [i \in 1..Len(text) |-> IF text[i] = "," THEN "." ELSE text[i]]

\* a faulty variant: every text is a number
FloatParses_anything(s) == Len(s) > 0

\* float(s) does not raise ValueError, for s made of digits, points and
\* symbols that belong to no number (no sign, exponent, "inf" or "nan"):
\* digits with at most one point among them
FloatParses(s) ==
    /\ \A i \in 1..Len(s) : IsDigit(s[i]) \/ s[i] = "."
    /\ \E i \in 1..Len(s) : IsDigit(s[i])
    /\ Cardinality({i \in 1..Len(s) : s[i] = "."}) <= 1

\* /start
start(u) ==
    /\ Commanded(u, "start")
    /\ LET cleared == clear_user_state(Store, u)
       IN IF is_supervisor(supervisors, u)
          THEN SetStore(cleared) /\ Finish(u, "supervisor_mode")
          ELSE IF ~IsEmpty(get_pet(pets, u))
          THEN SetStore(cleared) /\ Finish(u, "welcome_back")
          ELSE /\ SetStore(set_user_state(cleared, u, STATE_ONBOARDING_NAME, EmptyDict))
               /\ Finish(u, "ask_name")
    /\ UNCHANGED <<dbVars, now, job, sweep, buttons, fnVars>>

\* the steps of the onboarding that take a text
handle_onboarding(u) ==
    /\ Texted(u, "handle_onboarding")
    /\ LET state == get_user_state(Store, u)
           text == inbox[u].txt
           skipped == text = <<>> \/ StartsWithSkip(text)
           details(column, value) ==
               IF skipped THEN pets ELSE update_pet_details(pets, u, column, value)
           move(next, r) ==
               SetStore(set_user_state(Store, u, next, EmptyDict)) /\ Finish(u, r)
           stay(r) == UNCHANGED <<sessionVars, pets>> /\ Finish(u, r)
       IN CASE state = STATE_ONBOARDING_NAME ->
                 /\ SetStore(set_user_state(Store, u, STATE_ONBOARDING_TYPE,
                                            [name |-> text]))
                 /\ UNCHANGED pets
                 /\ Finish(u, "ask_type")
            [] state = STATE_ONBOARDING_GENDER ->
                 IF GenderOf(lower(text)) = None /\ text # <<>> /\ ~StartsWithSkip(text)
                 THEN stay("bad_gender")
                 ELSE /\ pets' = IF GenderOf(lower(text)) # None
                                 THEN update_pet_details(pets, u, "gender",
                                                         GenderOf(lower(text)))
                                 ELSE pets
                      /\ move(STATE_ONBOARDING_BREED, "ask_breed")
            [] state = STATE_ONBOARDING_BREED ->
                 /\ pets' = details("breed", text)
                 /\ move(STATE_ONBOARDING_BIRTHDATE, "ask_birthdate")
            [] state = STATE_ONBOARDING_BIRTHDATE ->
                 IF ~skipped /\ ~BirthDateMatch(text)
                 THEN stay("bad_date")
                 ELSE /\ pets' = details("birth_date", text)
                      /\ move(STATE_ONBOARDING_WEIGHT, "ask_weight")
            [] state = STATE_ONBOARDING_WEIGHT ->
                 IF ~skipped /\ ~FloatParses(CommaToPoint(text))
                 THEN stay("bad_weight")
                 ELSE /\ pets' = details("weight", CommaToPoint(text))
                      /\ move(STATE_ONBOARDING_VACCINATIONS, "ask_vaccinations")
            [] state = STATE_ONBOARDING_VACCINATIONS ->
                 /\ pets' = details("vaccinations", text)
                 /\ move(STATE_ONBOARDING_PHOTO, "ask_photo")
            [] state = STATE_ONBOARDING_OWNER ->
                 /\ pets' = details("owner_name", text)
                 /\ SetStore(clear_user_state(Store, u))
                 /\ Finish(u, "onboarding_done")
    /\ UNCHANGED <<records, reminders, supervisors, requests, nextId,
                   now, job, sweep, buttons, fnVars>>

\* the branch of handle_record for STATE_ONBOARDING_PHOTO
onboarding_photo(u) ==
    /\ Texted(u, "onboarding_photo") \/ Photographed(u, "onboarding_photo")
    /\ LET on == SetStore(set_user_state(Store, u, STATE_ONBOARDING_OWNER, EmptyDict))
       IN IF inbox[u].kind = "photo"
          THEN /\ pets' = update_pet_details(pets, u, "photo_id", "file_id")
               /\ on /\ Finish(u, "ask_owner")
          ELSE IF StartsWithSkip(inbox[u].txt)
          THEN UNCHANGED pets /\ on /\ Finish(u, "ask_owner")
          ELSE UNCHANGED <<sessionVars, pets>> /\ Finish(u, "need_photo")
    /\ UNCHANGED <<records, reminders, supervisors, requests, nextId,
                   now, job, sweep, buttons, fnVars>>

\* the kinds of pet on the buttons: "pet_type_<kind>"
PetTypes == <<"cat", "dog", "other">>

\* "pet_type_<kind>", the kind given by its place in PetTypes
handle_pet_type_callback(u) ==
    /\ Pressed(u, "pet_type")
    /\ LET user_data == get_user_data(Store, u)
       IN IF IsEmpty(user_data) \/ "name" \notin DOMAIN user_data
          THEN UNCHANGED sessionVars /\ Finish(u, "start_over")
          ELSE /\ SetStore(set_user_state(Store, u, STATE_ONBOARDING_TIMEZONE,
                               DictSet(user_data, "type", PetTypes[inbox[u].arg])))
               /\ Finish(u, "ask_timezone")
    /\ UNCHANGED <<dbVars, now, job, sweep, buttons, fnVars>>

\* "tz_other", written with the place 0, and "tz_<offset>", the offset given
\* by its place in TIMEZONES
handle_timezone_callback(u) ==
    /\ Pressed(u, "tz")
    /\ LET user_data == get_user_data(Store, u)
       IN IF inbox[u].arg = 0
          THEN UNCHANGED <<sessionVars, pets, nextId>> /\ Finish(u, "all_zones")
          ELSE IF IsEmpty(user_data) \/ "name" \notin DOMAIN user_data
                                     \/ "type" \notin DOMAIN user_data
          THEN UNCHANGED <<sessionVars, pets, nextId>> /\ Finish(u, "start_over")
          ELSE /\ pets' = create_pet(pets, nextId.pets, u, user_data.name,
                                     user_data.type, TIMEZONES[inbox[u].arg])
               /\ nextId' = [nextId EXCEPT !.pets = @ + 1]
               /\ SetStore(set_user_state(Store, u, STATE_ONBOARDING_GENDER, EmptyDict))
               /\ Finish(u, "pet_added")
    /\ UNCHANGED <<records, reminders, supervisors, requests,
                   now, job, sweep, buttons, fnVars>>

-----------------------------------------------------------------------------
(* Editing the pet and a reminder *)

MaxNameLen == 50

\* "pet_edit_name" of handle_pet_edit_callback
handle_pet_edit_callback(u) ==
    /\ Pressed(u, "pet_edit_name")
    /\ IF IsEmpty(get_pet(pets, u))
       THEN UNCHANGED sessionVars /\ Finish(u, "pet_not_found")
       ELSE /\ SetStore(set_user_state(Store, u, STATE_EDIT_PET_NAME, EmptyDict))
            /\ Finish(u, "ask_name")
    /\ UNCHANGED <<dbVars, now, job, sweep, buttons, fnVars>>

\* the new name of the pet; len() counts the symbols of the text
handle_edit_pet_name(u) ==
    /\ Texted(u, "handle_edit_pet_name")
    /\ LET new_name == inbox[u].txt
       IN IF Len(new_name) > MaxNameLen
          THEN UNCHANGED <<sessionVars, pets>> /\ Finish(u, "name_too_long")
          ELSE /\ pets' = update_pet_name(pets, u, new_name)
               /\ SetStore(clear_user_state(Store, u))
               /\ Finish(u, "renamed")
    /\ UNCHANGED <<records, reminders, supervisors, requests, nextId,
                   now, job, sweep, buttons, fnVars>>

\* db.update_reminder(reminder_id, text=new_text)
update_reminder_text(reminderTable, reminder_id, text) ==
    IF reminder_id \in DOMAIN reminderTable
    THEN [reminderTable EXCEPT ![reminder_id].text = text]
    ELSE reminderTable

\* db.update_reminder(reminder_id, remind_at=, day_of_week=, time_of_day=),
\* then UPDATE reminders SET sent = 0, status = 'pending' WHERE id = ?
update_reminder_time(reminderTable, reminder_id, remind_at, day_of_week, time_of_day) ==
    IF reminder_id \in DOMAIN reminderTable
    THEN [reminderTable EXCEPT ![reminder_id].remind_at = remind_at,
                               ![reminder_id].day_of_week = day_of_week,
                               ![reminder_id].time_of_day = time_of_day,
                               ![reminder_id].sent = FALSE,
                               ![reminder_id].status = STATUS_PENDING]
    ELSE reminderTable

\* the new text of a reminder
handle_edit_reminder_text(u) ==
    /\ Texted(u, "handle_edit_reminder_text")
    /\ LET user_data == get_user_data(Store, u)
       IN IF "reminder_id" \notin DOMAIN user_data
          THEN UNCHANGED reminders /\ Finish(u, "try_my_reminders")
          ELSE /\ reminders' = update_reminder_text(reminders, user_data.reminder_id,
                                                    inbox[u].txt)
               /\ Finish(u, "text_updated")
    /\ SetStore(clear_user_state(Store, u))
    /\ UNCHANGED <<pets, records, supervisors, requests, nextId,
                   now, job, sweep, buttons, fnVars>>

EditDayTags == {"editday_today", "editday_tomorrow", "editday_week"}

\* "editday_today", "editday_tomorrow", "editday_week_<d>"
handle_edit_day_callback(u) ==
    /\ \E tag \in EditDayTags : Pressed(u, tag)
    /\ LET data == inbox[u].tag
           user_data == get_user_data(Store, u)
           days_ahead == IF inbox[u].arg - Weekday(now) < 0
                         THEN inbox[u].arg - Weekday(now) + 7
                         ELSE inbox[u].arg - Weekday(now)
           day == CASE data = "editday_today" -> Weekday(now)
                    [] data = "editday_tomorrow" -> Weekday(now + MinutesPerDay)
                    [] OTHER -> inbox[u].arg
           date == CASE data = "editday_today" -> DateOf(now)
                     [] data = "editday_tomorrow" -> DateOf(now + MinutesPerDay)
                     [] OTHER -> DateOf(now + days_ahead * MinutesPerDay)
       IN IF "reminder_id" \notin DOMAIN user_data
          THEN UNCHANGED sessionVars /\ Finish(u, "try_my_reminders")
          ELSE /\ SetStore(set_user_state(Store, u, STATE_EDIT_REMINDER_TIME,
                               DictSet(DictSet(user_data, "day", day), "date", date)))
               /\ Finish(u, "ask_time")
    /\ UNCHANGED <<dbVars, now, job, sweep, buttons, fnVars>>

\* the new time of a reminder, typed as HH:MM
handle_edit_time_input(u) ==
    /\ Texted(u, "handle_edit_time_input")
    /\ LET text == inbox[u].txt
           user_data == get_user_data(Store, u)
           pet == get_pet(pets, u)
           hours == ParseInt(SubSeq(text, 1, Len(text) - 3))
           minutes == ParseInt(SubSeq(text, Len(text) - 1, Len(text)))
       IN IF "reminder_id" \notin DOMAIN user_data \/ "date" \notin DOMAIN user_data
          THEN /\ SetStore(clear_user_state(Store, u))
               /\ UNCHANGED reminders /\ Finish(u, "try_my_reminders")
          ELSE IF ~TimeMatch(text)
          THEN UNCHANGED <<sessionVars, reminders>> /\ Finish(u, "bad_format")
          ELSE IF hours < 0 \/ hours > 23 \/ minutes < 0 \/ minutes > 59
          THEN UNCHANGED <<sessionVars, reminders>> /\ Finish(u, "bad_time")
          ELSE IF IsEmpty(pet)
          THEN \* None.get
               UNCHANGED <<sessionVars, reminders>> /\ Finish(u, "error")
          ELSE LET server_remind_at ==
                       convert_user_time_to_server(
                           DateTime(user_data.date, hours, minutes), pet.timezone)
               IN /\ reminders' = update_reminder_time(
                                      reminders, user_data.reminder_id, server_remind_at,
                                      user_data.day, FormatTime(hours, minutes))
                  /\ SetStore(clear_user_state(Store, u))
                  /\ Finish(u, "time_updated")
    /\ UNCHANGED <<pets, records, supervisors, requests, nextId,
                   now, job, sweep, buttons, fnVars>>

-----------------------------------------------------------------------------
(* SpecFlow: one user from the first /start on, through the onboarding, the  *)
(* creation and the editing of reminders, with texts and buttons that fit    *)
(* the step and texts and old buttons that do not                            *)

InitFlow == Started /\ FnIdle /\ NoRows

\* the user who writes to the bot
FlowUsers == {1}

\* the ids of the reminders made so far: old messages keep their buttons
EverCreated == 1..(nextId.reminders - 1)

WALK == <<"walk">>
LongName == [i \in 1..(MaxNameLen + 1) |-> "a"]
GoodDate == <<"5", ".", "3", ".", "2", "0", "2", "1">>
GoodWeight == <<"4", ",", "2">>
LateTime == <<"2", "5", ":", "0", "0">>
ShortDate == <<"5", ".", "3">>
TwoPoints == <<"4", ".", "2", ".", "1">>

\* texts the step of the state has to turn down
InvalidTexts(state) ==
    CASE state \in {STATE_ONBOARDING_GENDER, STATE_ONBOARDING_PHOTO} -> {WALK}
      [] state = STATE_ONBOARDING_BIRTHDATE -> {WALK, ShortDate}
      [] state = STATE_ONBOARDING_WEIGHT -> {WALK, TwoPoints}
      [] state \in {STATE_REMINDER_TIME, STATE_EDIT_REMINDER_TIME} -> {WALK, LateTime}
      [] state = STATE_EDIT_PET_NAME -> {LongName}
      [] OTHER -> {}

\* the steps of the onboarding that may be skipped
OptionalSteps ==
    {STATE_ONBOARDING_GENDER, STATE_ONBOARDING_BREED, STATE_ONBOARDING_BIRTHDATE,
     STATE_ONBOARDING_WEIGHT, STATE_ONBOARDING_VACCINATIONS, STATE_ONBOARDING_PHOTO,
     STATE_ONBOARDING_OWNER}

\* texts that start with the skip word, whatever the case of their letters
SkipTexts == {SKIP, <<"Propus", "tit">>, <<"PROPUS", "TIT">>, <<"propus", "kayu">>}

\* the texts a user may type in the state
FlowTexts(state) ==
    {WALK, BTN_NOTE}
    \cup InvalidTexts(state)
    \cup (IF state = STATE_ONBOARDING_GENDER THEN {<<"M">>} ELSE {})
    \cup (IF state \in OptionalSteps THEN SkipTexts ELSE {})
    \cup (IF state = STATE_ONBOARDING_BIRTHDATE THEN {GoodDate} ELSE {})
    \cup (IF state = STATE_ONBOARDING_WEIGHT THEN {GoodWeight} ELSE {})
    \cup (IF state \in {STATE_REMINDER_TIME, STATE_EDIT_REMINDER_TIME}
          THEN {FormatTime(9, 30)} ELSE {})

\* the buttons a user may press in the state: those of the step, and those
\* of earlier messages in the state a command or a /start has left
FlowButtons(u, state) ==
    (IF state \in {STATE_ONBOARDING_TYPE, STATE_ONBOARDING_NAME}
     THEN {Callback("pet_type", 2)} ELSE {})
    \cup (IF state = STATE_ONBOARDING_TIMEZONE
          THEN {Callback("tz", 0), Callback("tz", 19)} ELSE {})
    \cup (IF state \in {STATE_REMINDER_DAY, STATE_REMINDER_TEXT} /\ CanCreate
          THEN {Callback("day_today", 0), Callback("day_quick_1h", 0)} ELSE {})
    \cup (IF state \in {STATE_REMINDER_RECURRING, STATE_REMINDER_TEXT} /\ CanCreate
          THEN {Callback("recurring_no", 0)} ELSE {})
    \cup (IF state \in {STATE_EDIT_REMINDER_DAY, STATE_NORMAL}
          THEN {Callback("editday_today", 0)} ELSE {})
    \cup (IF state = STATE_NORMAL
          THEN {Callback("pet_edit_name", 0)}
               \cup {Callback(tag, id) : tag \in {"edit_time", "edit_text", "confirm_del"},
                                         id \in EverCreated}
          ELSE {})

\* what the user u may send
FlowUpdates(u) ==
    LET state == get_user_state(Store, u)
    IN {Command("start")}
       \cup {Command("reminder") : x \in {y \in {1} : CanCreate}}
       \cup {Command("supervisor_on") :
                 x \in {y \in {1} : state = STATE_NORMAL /\ u \notin DOMAIN supervisors}}
       \cup {Text(txt) : txt \in FlowTexts(state)}
       \cup (IF state \in {STATE_NORMAL, STATE_ONBOARDING_PHOTO} THEN {Photo} ELSE {})
       \cup FlowButtons(u, state)

ReceiveFlow ==
    /\ \E u \in FlowUsers : \E update \in FlowUpdates(u) : Arrive(u, update)
    /\ UNCHANGED <<sessionVars, dbVars, now, job, sweep, buttons, fnVars>>

NextFlow ==
    \/ ReceiveFlow
    \/ \E u \in Users : start(u)
    \/ \E u \in Users : supervisor_on_command(u)
    \/ \E u \in Users : handle_onboarding(u)
    \/ \E u \in Users : onboarding_photo(u)
    \/ \E u \in Users : handle_pet_type_callback(u)
    \/ \E u \in Users : handle_timezone_callback(u)
    \/ \E u \in Users : handle_menu_buttons(u)
    \/ \E u \in Users : note_text(u)
    \/ \E u \in Users : handle_record_return(u)
    \/ \E u \in Users : reminder_command(u)
    \/ \E u \in Users : handle_reminder_flow(u)
    \/ \E u \in Users : handle_reminder_day_callback(u)
    \/ \E u \in Users : handle_reminder_time_input(u)
    \/ \E u \in Users : handle_recurring_callback(u)
    \/ \E u \in Users : handle_reminder_actions_callback(u)
    \/ \E u \in Users : handle_edit_reminder_text(u)
    \/ \E u \in Users : handle_edit_day_callback(u)
    \/ \E u \in Users : handle_edit_time_input(u)
    \/ \E u \in Users : handle_pet_edit_callback(u)
    \/ \E u \in Users : handle_edit_pet_name(u)

SpecFlow == InitFlow /\ [][NextFlow]_vars

-----------------------------------------------------------------------------
(* The flows: C11, C12, C13, C14, C15 *)

\* the step runs the handler of u's update to its end
Handled(u) == inbox[u] # NoUpdate /\ pc[u] = "idle" /\ inbox'[u] = NoUpdate

\* the answers of the commands of the main menu
MenuAnswers == {"profile", "reminders_menu", "history", "export", "export_failed",
                "add_pet_first", "ask_note"}

\* C11: a text that is a label of the main menu, handled for a user whose
\* session is in a state of a flow, is not answered by a command of the menu;
\* in STATE_REMINDER_TEXT it is taken as the text of the reminder, which moves
\* the session to STATE_REMINDER_DAY with this text as its data.
C11_MenuTextFeedsFlow ==
    [][\A u \in Users :
          (/\ Handled(u)
           /\ inbox[u].kind = "text"
           /\ inbox[u].txt \in MenuLabels
           /\ get_user_state(Store, u) # STATE_NORMAL)
          => /\ reply'[u] \notin MenuAnswers
             /\ get_user_state(Store, u) = STATE_REMINDER_TEXT
                   => /\ get_user_state(StoreAfter, u) = STATE_REMINDER_DAY
                      /\ get_user_data(StoreAfter, u) = [text |-> inbox[u].txt]]_vars

\* C12: a text that is no label of the menu, or a photo, handled for a user
\* without pet whose session is idle, moves the session to
\* STATE_ONBOARDING_NAME and adds no record and no reminder.
C12_NoPetForcesOnboarding ==
    [][\A u \in Users :
          (/\ Handled(u)
           /\ inbox[u].kind \in {"text", "photo"}
           /\ inbox[u].txt \notin MenuLabels
           /\ IsEmpty(get_pet(pets, u))
           /\ get_user_state(Store, u) = STATE_NORMAL)
          => /\ get_user_state(StoreAfter, u) = STATE_ONBOARDING_NAME
             /\ records' = records
             /\ reminders' = reminders]_vars

\* C13: /start, in any state of the session and with any data, leaves the
\* session without data; it leaves it idle, with no entry in the store, when
\* the sender is a supervisor or has a pet, and in STATE_ONBOARDING_NAME
\* otherwise.  No table changes.
C13_StartClearsSession ==
    [][\A u \in Users :
          (Handled(u) /\ Commanded(u, "start"))
          => /\ IsEmpty(get_user_data(StoreAfter, u))
             /\ u \notin DOMAIN USER_DATA'
             /\ IF is_supervisor(supervisors, u) \/ ~IsEmpty(get_pet(pets, u))
                THEN u \notin DOMAIN USER_STATES'
                ELSE USER_STATES'[u] = STATE_ONBOARDING_NAME
             /\ UNCHANGED dbVars]_vars

\* a supervisor with a pet, who left the creation of a reminder with /start,
\* is idle and without data
C13_Witness ==
    \E u \in Users :
        /\ reply[u] = "supervisor_mode"
        /\ inbox[u] = NoUpdate
        /\ ~IsEmpty(get_pet(pets, u))
        /\ u \notin DOMAIN USER_STATES
        /\ u \notin DOMAIN USER_DATA

\* the answers that turn an input down and ask for it again
Rejections == {"bad_gender", "bad_date", "bad_weight", "bad_format", "bad_time",
               "name_too_long", "need_photo"}

\* C14: when the step of the session's state is given a text it has to turn
\* down (a gender that is neither m nor f, a birth date not DD.MM.YYYY, a
\* weight that is no number, a time not HH:MM or beyond 23:59, a pet name of
\* more than 50 characters, a text that is no skip at the photo step), it
\* answers with a correction and the session state, the session data, the
\* pets and the reminders stay as they are.
C14_RejectionChangesNothing ==
    [][\A u \in Users :
          (/\ Handled(u)
           /\ inbox[u].kind = "text"
           /\ inbox[u].txt \in InvalidTexts(get_user_state(Store, u)))
          => /\ reply'[u] \in Rejections
             /\ UNCHANGED <<USER_STATES, USER_DATA, pets, reminders>>]_vars

\* the new time of a reminder was turned down: the session still holds the
\* reminder and the day, and the step still waits for the time
C14_Witness ==
    \E u \in Users :
        /\ reply[u] = "bad_time"
        /\ inbox[u] = NoUpdate
        /\ get_user_state(Store, u) = STATE_EDIT_REMINDER_TIME
        /\ "reminder_id" \in DOMAIN get_user_data(Store, u)
        /\ "date" \in DOMAIN get_user_data(Store, u)

\* the handler of u's update finds that what it needs is missing: the data of
\* the step, the pet, or the reminder of the button
MissingPrecondition(u) ==
    LET user_data == get_user_data(Store, u)
    IN \/ (\E tag \in DayTags : Pressed(u, tag)) /\ "text" \notin DOMAIN user_data
       \/ /\ \E tag \in RecurringTags : Pressed(u, tag)
          /\ \E key \in {"text", "date", "time"} : key \notin DOMAIN user_data
       \/ /\ \E tag \in EditDayTags : Pressed(u, tag)
          /\ "reminder_id" \notin DOMAIN user_data
       \/ Commanded(u, "reminder") /\ IsEmpty(get_pet(pets, u))
       \/ Pressed(u, "pet_edit_name") /\ IsEmpty(get_pet(pets, u))
       \/ /\ \E tag \in ManageTags : Pressed(u, tag)
          /\ inbox[u].arg \notin DOMAIN reminders

\* C15: a handler that finds its precondition missing ends with the session
\* idle and without data, changes no table and raises no error.
C15_MissingPreconditionAborts ==
    [][\A u \in Users :
          (Handled(u) /\ MissingPrecondition(u))
          => /\ get_user_state(StoreAfter, u) = STATE_NORMAL
             /\ IsEmpty(get_user_data(StoreAfter, u))
             /\ UNCHANGED dbVars
             /\ reply'[u] # "error"]_vars

-----------------------------------------------------------------------------
(* /export, and a PDF document sent to the bot *)

\* a PDF document: the update filters.Document.PDF lets through
Document == [kind |-> "document", tag |-> "", arg |-> 0, txt |-> <<>>]

\* /export
export_command(u) ==
    /\ Commanded(u, "export")
    /\ ExportAnswer(u)
    /\ UNCHANGED <<sessionVars, dbVars, now, job, sweep, buttons, fnVars>>

\* INSERT INTO transcription_requests (user_id, pet_id, pdf_file_id, status)
create_transcription_request(requestTable, id, user_id, pet_id) ==
    Put(requestTable, id, Request(id, user_id, pet_id))

\* the PDF document of a user, up to the first send_message of
\* notify_supervisors_about_new_request
handle_pdf_for_transcription(u) ==
    /\ inbox[u].kind = "document"
    /\ pc[u] = "idle"
    /\ LET user_data == get_user_data(Store, u)
       IN IF get_user_state(Store, u) # STATE_WAITING_FOR_PDF
          THEN UNCHANGED <<sessionVars, requests, nextId>> /\ Finish(u, "none")
          ELSE IF "pet_id" \notin DOMAIN user_data
          THEN /\ SetStore(clear_user_state(Store, u))
               /\ UNCHANGED <<requests, nextId>>
               /\ Finish(u, "try_export")
          ELSE /\ requests' = create_transcription_request(
                                  requests, nextId.requests, u, user_data.pet_id)
               /\ nextId' = [nextId EXCEPT !.requests = @ + 1]
               /\ SetStore(clear_user_state(Store, u))
               /\ \E order \in Orderings(DOMAIN supervisors) :
                      IF order = <<>> THEN Finish(u, "document_received")
                      ELSE Suspend(u, "notify_supervisor",
                                   [request_id |-> nextId.requests,
                                    supervisors |-> order, idx |-> 1])
    /\ UNCHANGED <<pets, records, reminders, supervisors, now, job, sweep, buttons,
                   fnVars>>

\* the loop of notify_supervisors_about_new_request goes on to the next
\* supervisor, or the handler ends
NotifyAfter(u) ==
    IF frame[u].idx < Len(frame[u].supervisors)
    THEN /\ frame' = [frame EXCEPT ![u].idx = @ + 1]
         /\ UNCHANGED <<inbox, pc, reply>>
    ELSE Finish(u, "document_received")

\* send_message to a supervisor returned: they hold the button of the request
notify_supervisor_ok(u) ==
    /\ pc[u] = "notify_supervisor"
    /\ ~IsEmpty(get_pet_by_id(pets, get_transcription_request(
                                        requests, frame[u].request_id).pet_id))
    /\ buttons' = buttons \cup {<<"take_request", frame[u].request_id>>}
    /\ NotifyAfter(u)
    /\ UNCHANGED <<sessionVars, dbVars, now, job, sweep, fnVars>>

\* send_message to a supervisor raised: the except branch logs it
notify_supervisor_fails(u) ==
    /\ pc[u] = "notify_supervisor"
    /\ NotifyAfter(u)
    /\ UNCHANGED <<sessionVars, dbVars, now, job, sweep, buttons, fnVars>>

-----------------------------------------------------------------------------
(* SpecExport: an owner and a user without pet ask for the export, and join  *)
(* and leave the supervisors                                                 *)

InitExport == Started /\ FnIdle /\ OneOwner(SERVER_TIMEZONE)

\* a row of supervisors may still be added: no more rows than users
CanJoin == nextId.supervisors <= MaxUsers

\* what the user u may send: everybody asks for the export and sends
\* documents and texts, and joins and leaves the supervisors
ExportUpdates(u) ==
    {Command("export"), Text(BTN_EXPORT), Text(WALK), Document}
    \cup {Command("supervisor_on") :
              x \in {y \in {1} : u \notin DOMAIN supervisors /\ CanJoin}}
    \cup {Command("supervisor_off") : x \in {y \in {1} : u \in DOMAIN supervisors}}

ReceiveExport ==
    /\ \E u \in Users : \E update \in ExportUpdates(u) : Arrive(u, update)
    /\ UNCHANGED <<sessionVars, dbVars, now, job, sweep, buttons, fnVars>>

NextExport ==
    \/ ReceiveExport
    \/ \E u \in Users : supervisor_on_command(u)
    \/ \E u \in Users : supervisor_off_command(u)
    \/ \E u \in Users : export_command(u)
    \/ \E u \in Users : handle_menu_buttons(u)
    \/ \E u \in Users : handle_record_return(u)
    \/ \E u \in Users : handle_pdf_for_transcription(u)

SpecExport == InitExport /\ [][NextExport]_vars

\* the step runs the export for u: the command, or the button of the menu
Exports(u) ==
    /\ Handled(u)
    /\ \/ Commanded(u, "export")
       \/ inbox[u].kind = "text" /\ inbox[u].txt \in {BTN_EXPORT, BTN_TRANSCRIPT}

\* C16: the export asked for by an owner with a pet, while a supervisor
\* exists, leaves the owner's session in STATE_WAITING_FOR_PDF; a document
\* handled in that state adds a pending request for the owner's pet, and
\* every other step of a user in that state adds none.
C16_ExportAwaitsDocument ==
    [][\A u \in Users :
          /\ (/\ Exports(u)
              /\ ~IsEmpty(get_pet(pets, u))
              /\ supervisors # EmptyDict)
             => get_user_state(StoreAfter, u) = STATE_WAITING_FOR_PDF
          /\ (Handled(u) /\ get_user_state(Store, u) = STATE_WAITING_FOR_PDF)
             => IF inbox[u].kind = "document"
                THEN \E id \in DOMAIN requests' \ DOMAIN requests :
                         /\ requests'[id].status = REQUEST_PENDING
                         /\ requests'[id].user_id = u
                         /\ requests'[id].pet_id = get_pet(pets, u).id
                ELSE requests' = requests]_vars

\* C17: the export asked for while no supervisor exists is turned down: no
\* report is sent, the session does not come to STATE_WAITING_FOR_PDF and no
\* request is added.
C17_ExportRejectedWithoutSupervisors ==
    [][\A u \in Users :
          (/\ Exports(u)
           /\ ~IsEmpty(get_pet(pets, u))
           /\ supervisors = EmptyDict)
          => /\ reply'[u] \notin {"export", "export_failed"}
             /\ get_user_state(StoreAfter, u) # STATE_WAITING_FOR_PDF
             /\ requests' = requests]_vars

-----------------------------------------------------------------------------
(* The hand-off: C18, C19 *)

\* C18: when the handler of an accepted claim ends, whether send_document
\* returned or raised, the request is in progress with the claimer assigned
\* and the claimer's session is in STATE_SUPERVISOR_TRANSCRIPTION with the
\* request id, the owner id and the pet id as its data.
C18_ClaimerAwaitsText ==
    [][\A u \in Users :
          (pc[u] = "send_document" /\ pc'[u] = "idle")
          => LET id == frame[u].request_id
             IN /\ requests'[id].status = REQUEST_IN_PROGRESS
                /\ requests'[id].supervisor_id = supervisors[u].id
                /\ get_user_state(StoreAfter, u) = STATE_SUPERVISOR_TRANSCRIPTION
                /\ get_user_data(StoreAfter, u) =
                       [request_id |-> id, user_id |-> requests[id].user_id,
                        pet_id |-> requests[id].pet_id]]_vars

\* C19: a text of a supervisor in STATE_SUPERVISOR_TRANSCRIPTION completes
\* the request of the session with this text, adds exactly one record, a
\* visit with the visit tag and this text, to the pet of the request, changes
\* no other request and no other record, and leaves the session idle and
\* without data; the notification of the owner, whether it returns or raises,
\* changes none of this.
C19_TranscriptionCompletes ==
    [][\A u \in Users :
          /\ (/\ inbox[u].kind = "text"
              /\ pc[u] = "idle"
              /\ get_user_state(Store, u) = STATE_SUPERVISOR_TRANSCRIPTION
              /\ pc'[u] # "idle" \/ inbox'[u] = NoUpdate
              /\ \A key \in {"request_id", "user_id", "pet_id"} :
                     key \in DOMAIN get_user_data(Store, u))
             => LET id == get_user_data(Store, u).request_id
                IN /\ requests' = [requests EXCEPT
                                      ![id].status = REQUEST_COMPLETED,
                                      ![id].transcription = inbox[u].txt]
                   /\ \E new \in DOMAIN records' \ DOMAIN records :
                         /\ DOMAIN records' = DOMAIN records \cup {new}
                         /\ records'[new].is_visit
                         /\ records'[new].tag = VISIT_TAG
                         /\ records'[new].text = inbox[u].txt
                         /\ records'[new].pet_id = requests[id].pet_id
                   /\ \A old \in DOMAIN records : records'[old] = records[old]
                   /\ get_user_state(StoreAfter, u) = STATE_NORMAL
                   /\ IsEmpty(get_user_data(StoreAfter, u))
          /\ (pc[u] = "notify_owner" /\ pc'[u] = "idle")
             => UNCHANGED <<requests, records, USER_STATES, USER_DATA>>]_vars

-----------------------------------------------------------------------------
(* SpecBatch: the two jobs over lists of more than one reminder *)

InitBatch == Started /\ FnIdle /\ OneOwner(SERVER_TIMEZONE)

\* what the owner u may send: reminders in an hour, made weekly on their
\* card, and the first button of a delivered reminder
BatchUpdates(u) ==
    LET state == get_user_state(Store, u)
    IN {Command("reminder") : x \in {y \in {1} : CanCreate}}
       \cup {Text(<<"walk">>) : x \in {y \in {1} : state = STATE_REMINDER_TEXT}}
       \cup {Callback("day_quick_1h", 0) :
                 x \in {y \in {1} : state = STATE_REMINDER_DAY /\ CanCreate}}
       \cup {Callback("yes_recur", id) : id \in RemindersOf(u)}
       \cup {Callback("reminder_done", b[2]) : b \in {c \in buttons : c[1] = "reminder"}}

ReceiveBatch ==
    /\ \E u \in DOMAIN pets : \E update \in BatchUpdates(u) : Arrive(u, update)
    /\ UNCHANGED <<sessionVars, dbVars, now, job, sweep, buttons, fnVars>>

NextBatch ==
    \/ ReceiveBatch
    \/ Tick(PassClock)
    \/ StartPass
    \/ SendReminderOk
    \/ SendReminderFails
    \/ StartSweep
    \/ SendConfirmationOk
    \/ SendConfirmationFails
    \/ \E u \in Users : reminder_command(u)
    \/ \E u \in Users : handle_reminder_flow(u)
    \/ \E u \in Users : handle_reminder_day_callback(u)
    \/ \E u \in Users : handle_reminder_actions_callback(u)
    \/ \E u \in Users : handle_reminder_action(u)

SpecBatch == InitBatch /\ [][NextBatch]_vars

-----------------------------------------------------------------------------
(* The batches: C20 *)

\* the loop of a batch attempts a send for this item of its list
Sendable(item) ==
    /\ item.is_active
    /\ ~IsEmpty(get_pet_by_id(pets, item.pet_id))

\* the batch over list, at the item i before the step, is at the next item of
\* the list that it attempts, or has ended when no such item is left
GoesOn(list, i, pcAfter, idxAfter) ==
    LET rest == {k \in i + 1..Len(list) : Sendable(list[k])}
    IN IF rest = {}
       THEN pcAfter = "idle"
       ELSE /\ pcAfter = "send"
            /\ idxAfter \in rest
            /\ \A k \in rest : idxAfter <= k

\* C20: a send of the due-reminder pass or of the re-confirmation sweep that
\* raises changes no table, so what the batch stored before is kept, and the
\* batch goes on over the same list with the next item it has to attempt; it
\* ends only when no such item is left.
C20_FailedSendKeepsBatch ==
    [][/\ (job.pc = "send" /\ job' # job /\ job'.delivered = 0)
          => /\ UNCHANGED dbVars
             /\ job'.pc = "send" => job'.pending = job.pending
             /\ GoesOn(job.pending, job.idx, job'.pc, job'.idx)
       /\ (sweep.pc = "send" /\ sweep' # sweep /\ buttons' = buttons)
          => /\ UNCHANGED dbVars
             /\ sweep'.pc = "send" => sweep'.recurring = sweep.recurring
             /\ GoesOn(sweep.recurring, sweep.idx, sweep'.pc, sweep'.idx)]_vars

\* the send of the first reminder of a pass raised: the reminder is not
\* marked, and the pass is at its second reminder
C20_Witness ==
    /\ job.pc = "send"
    /\ job.idx = 2
    /\ job.delivered = 0
    /\ Sendable(job.pending[1])
    /\ job.pending[1].id \in DOMAIN reminders
    /\ ~reminders[job.pending[1].id].sent

-----------------------------------------------------------------------------
(* The note: its tag, chosen on the keyboard or typed *)

\* the categories on the keyboard: "note_tag_<category>"
NoteTags == <<"vaccination", "checkup", "medication", "lab_tests",
              "parasite_treatment", "feeding">>

NoteTagButtons == {"note_tag", "note_tag_custom", "note_tag_none"}

\* user_data.get("text") or ""
NoteText(user_data) == IF "text" \in DOMAIN user_data THEN user_data.text ELSE <<>>

\* user_data.get("photo_id")
NotePhoto(user_data) ==
    IF "photo_id" \in DOMAIN user_data THEN user_data.photo_id ELSE None

\* "note_tag_<category>", the category given by its place in NoteTags,
\* "note_tag_custom", "note_tag_none"
handle_note_tag_callback(u) ==
    /\ \E button \in NoteTagButtons : Pressed(u, button)
    /\ LET data == inbox[u].tag
           user_data == get_user_data(Store, u)
           pet == get_pet(pets, u)
           tag == IF data = "note_tag_none" THEN None ELSE NoteTags[inbox[u].arg]
       IN IF IsEmpty(user_data)
          THEN /\ SetStore(clear_user_state(Store, u))
               /\ UNCHANGED <<records, nextId>>
               /\ Finish(u, "note_not_found")
          ELSE IF IsEmpty(pet)
          THEN /\ SetStore(clear_user_state(Store, u))
               /\ UNCHANGED <<records, nextId>>
               /\ Finish(u, "add_pet_first")
          ELSE IF data = "note_tag_custom"
          THEN /\ SetStore(set_user_state(Store, u, STATE_NOTE_TAG,
                               [text |-> NoteText(user_data),
                                photo_id |-> NotePhoto(user_data)]))
               /\ UNCHANGED <<records, nextId>>
               /\ Finish(u, "ask_custom_tag")
          ELSE /\ records' = create_record(records, nextId.records, pet.id,
                                           NoteText(user_data), NotePhoto(user_data), tag, FALSE)
               /\ nextId' = [nextId EXCEPT !.records = @ + 1]
               /\ SetStore(clear_user_state(Store, u))
               /\ Finish(u, "note_saved")
    /\ UNCHANGED <<pets, reminders, supervisors, requests,
                   now, job, sweep, buttons, fnVars>>

\* the typed tag; texts of the model carry no blanks, so strip() keeps them
handle_note_custom_tag_input(u) ==
    /\ Texted(u, "handle_note_custom_tag_input")
    /\ LET tag == inbox[u].txt
           user_data == get_user_data(Store, u)
           pet == get_pet(pets, u)
       IN IF IsEmpty(user_data)
          THEN /\ SetStore(clear_user_state(Store, u))
               /\ UNCHANGED <<records, nextId>>
               /\ Finish(u, "note_not_found")
          ELSE IF IsEmpty(pet)
          THEN /\ SetStore(clear_user_state(Store, u))
               /\ UNCHANGED <<records, nextId>>
               /\ Finish(u, "add_pet_first")
          ELSE /\ records' = create_record(records, nextId.records, pet.id,
                                           NoteText(user_data), NotePhoto(user_data), tag, FALSE)
               /\ nextId' = [nextId EXCEPT !.records = @ + 1]
               /\ SetStore(clear_user_state(Store, u))
               /\ Finish(u, "note_saved")
    /\ UNCHANGED <<pets, reminders, supervisors, requests,
                   now, job, sweep, buttons, fnVars>>

-----------------------------------------------------------------------------
(* Deleting the pet *)

\* DELETE FROM <table> WHERE pet_id = ?
WithoutPet(table, pet_id) ==
    [id \in {k \in DOMAIN table : table[k].pet_id # pet_id} |-> table[id]]

\* a faulty variant: the reminders of the pet stay
delete_pet_keeps_reminders(tables, user_id) ==
    IF user_id \in DOMAIN tables.pets
    THEN LET pet_id == tables.pets[user_id].id
         IN [pets |-> Pop(tables.pets, user_id),
             records |-> WithoutPet(tables.records, pet_id),
             reminders |-> tables.reminders,
             requests |-> WithoutPet(tables.requests, pet_id)]
    ELSE tables

\* the rows of the three tables with the id of the user's pet, then the pet
delete_pet(tables, user_id) ==
    IF user_id \in DOMAIN tables.pets
    THEN LET pet_id == tables.pets[user_id].id
         IN [pets |-> Pop(tables.pets, user_id),
             records |-> WithoutPet(tables.records, pet_id),
             reminders |-> WithoutPet(tables.reminders, pet_id),
             requests |-> WithoutPet(tables.requests, pet_id)]
    ELSE tables

\* "pet_confirm_delete" of handle_pet_edit_callback
pet_confirm_delete(u) ==
    /\ Pressed(u, "pet_confirm_delete")
    /\ IF IsEmpty(get_pet(pets, u))
       THEN /\ UNCHANGED <<sessionVars, pets, records, reminders, requests>>
            /\ Finish(u, "pet_not_found")
       ELSE LET after == delete_pet([pets |-> pets, records |-> records,
                                     reminders |-> reminders,
                                     requests |-> requests], u)
            IN /\ pets' = after.pets
               /\ records' = after.records
               /\ reminders' = after.reminders
               /\ requests' = after.requests
               /\ SetStore(clear_user_state(Store, u))
               /\ Finish(u, "pet_deleted")
    /\ UNCHANGED <<supervisors, nextId, now, job, sweep, buttons, fnVars>>

-----------------------------------------------------------------------------
(* SpecDelete: the owner writes notes, makes reminders and deletes the pet,  *)
(* next to a supervisor at work on the requests of the pet.  The requests    *)
(* are rows the database file holds when the process starts, as in           *)
(* SpecHandoff.                                                              *)

MaxRecords == 2        \* notes the owner may write

MaxWords == 2         \* pieces of a text given to auto_detect_tag

InitDelete == InitHandoff

\* what the user u may send
DeleteUpdates(u) ==
    LET state == get_user_state(Store, u)
    IN IF u = 1
       THEN {Text(BTN_NOTE) : x \in {y \in {1} : state = STATE_NORMAL
                                                  /\ nextId.records <= MaxRecords}}
            \cup {Text(<<"walk">>) : x \in {y \in {1} :
                      state \in {STATE_NOTE_TEXT, STATE_REMINDER_TEXT}}}
            \cup {Callback("note_tag_none", 0) : x \in {y \in {1} :
                      state = STATE_NOTE_TEXT /\ nextId.records <= MaxRecords}}
            \cup {Command("reminder") : x \in {y \in {1} :
                      state = STATE_NORMAL /\ CanCreate}}
            \cup {Callback("day_quick_1h", 0) : x \in {y \in {1} :
                      state = STATE_REMINDER_DAY /\ CanCreate}}
            \cup {Callback("pet_confirm_delete", 0)}
       ELSE {Command("supervisor_on") : x \in {y \in {1} : u \notin DOMAIN supervisors}}
            \cup {Callback("take_request", id) :
                      id \in {y \in DOMAIN requests : u \in DOMAIN supervisors}}
            \cup {Text(<<"diagnosis">>) : x \in {y \in {1} :
                      state = STATE_SUPERVISOR_TRANSCRIPTION}}

ReceiveDelete ==
    /\ \E u \in Users : \E update \in DeleteUpdates(u) : Arrive(u, update)
    /\ UNCHANGED <<sessionVars, dbVars, now, job, sweep, buttons, fnVars>>

NextDelete ==
    \/ ReceiveDelete
    \/ \E u \in Users : handle_menu_buttons(u)
    \/ \E u \in Users : note_text(u)
    \/ \E u \in Users : handle_note_tag_callback(u)
    \/ \E u \in Users : reminder_command(u)
    \/ \E u \in Users : handle_reminder_flow(u)
    \/ \E u \in Users : handle_reminder_day_callback(u)
    \/ \E u \in Users : pet_confirm_delete(u)
    \/ \E u \in Users : supervisor_on_command(u)
    \/ \E u \in Users : handle_take_request_callback(u)
    \/ \E u \in Users : take_request_document_sent(u)
    \/ \E u \in Users : take_request_document_failed(u)
    \/ \E u \in Users : handle_supervisor_transcription(u)
    \/ \E u \in Users : transcription_owner_notified(u)
    \/ \E u \in Users : transcription_owner_unreachable(u)

SpecDelete == InitDelete /\ [][NextDelete]_vars

\* the rows of table that belong to the pet pet_id
RowsOfPet(table, pet_id) == {id \in DOMAIN table : table[id].pet_id = pet_id}

\* C21: when the handler of the confirmed deletion has run for a user with a
\* pet, the user has no pet, no record, no reminder and no transcription
\* request carries the id of the deleted pet, and the session of the user is
\* idle and holds no data.
C21_DeletionCascades ==
    [][\A u \in Users :
          (Handled(u) /\ Pressed(u, "pet_confirm_delete") /\ ~IsEmpty(get_pet(pets, u)))
          => LET pet_id == pets[u].id
             IN /\ IsEmpty(get_pet(pets', u))
                /\ IsEmpty(get_pet_by_id(pets', pet_id))
                /\ RowsOfPet(records', pet_id) = {}
                /\ RowsOfPet(reminders', pet_id) = {}
                /\ RowsOfPet(requests', pet_id) = {}
                /\ get_user_state(StoreAfter, u) = STATE_NORMAL
                /\ IsEmpty(get_user_data(StoreAfter, u))]_vars

\* the pet is deleted in the middle of a note, after a note and a reminder
\* were stored for it and with requests waiting
C21_Witness ==
    /\ reply[1] = "pet_deleted"
    /\ nextId.records > 1
    /\ nextId.reminders > 1
    /\ nextId.requests > 1
    /\ IsEmpty(pets)
    /\ IsEmpty(records) /\ IsEmpty(reminders) /\ IsEmpty(requests)

-----------------------------------------------------------------------------
(* The onboarding: C22, C23 *)

\* u has no pet
NoPet(u) == IsEmpty(get_pet(pets, u))

\* C22: for a user without a pet, a text handled in STATE_ONBOARDING_NAME
\* leaves the session in STATE_ONBOARDING_TYPE with the text as the name and
\* creates no pet; the choice of the kind then leaves it in
\* STATE_ONBOARDING_TIMEZONE with the name and the kind and creates no pet;
\* the choice of the time zone then creates the one pet of the user, with
\* this name, kind and time zone, and leaves the session in
\* STATE_ONBOARDING_GENDER.
C22_OnboardingCreatesPet ==
    [][\A u \in Users :
          LET state == get_user_state(Store, u)
              user_data == get_user_data(Store, u)
          IN /\ (Handled(u) /\ inbox[u].kind = "text" /\ NoPet(u)
                    /\ state = STATE_ONBOARDING_NAME)
                => /\ get_user_state(StoreAfter, u) = STATE_ONBOARDING_TYPE
                   /\ get_user_data(StoreAfter, u) = [name |-> inbox[u].txt]
                   /\ pets' = pets
             /\ (Handled(u) /\ Pressed(u, "pet_type") /\ NoPet(u)
                    /\ state = STATE_ONBOARDING_TYPE /\ DOMAIN user_data = {"name"})
                => /\ get_user_state(StoreAfter, u) = STATE_ONBOARDING_TIMEZONE
                   /\ get_user_data(StoreAfter, u) =
                          [name |-> user_data.name, type |-> PetTypes[inbox[u].arg]]
                   /\ pets' = pets
             /\ (Handled(u) /\ Pressed(u, "tz") /\ inbox[u].arg # 0 /\ NoPet(u)
                    /\ state = STATE_ONBOARDING_TIMEZONE
                    /\ DOMAIN user_data = {"name", "type"})
                => /\ DOMAIN pets' = DOMAIN pets \cup {u}
                   /\ \A other \in DOMAIN pets : pets'[other] = pets[other]
                   /\ pets'[u].name = user_data.name
                   /\ pets'[u].type = user_data.type
                   /\ pets'[u].timezone = TIMEZONES[inbox[u].arg]
                   /\ get_user_state(StoreAfter, u) = STATE_ONBOARDING_GENDER]_vars

\* the step that follows an optional step of the onboarding
StepAfter(state) ==
    CASE state = STATE_ONBOARDING_GENDER -> STATE_ONBOARDING_BREED
      [] state = STATE_ONBOARDING_BREED -> STATE_ONBOARDING_BIRTHDATE
      [] state = STATE_ONBOARDING_BIRTHDATE -> STATE_ONBOARDING_WEIGHT
      [] state = STATE_ONBOARDING_WEIGHT -> STATE_ONBOARDING_VACCINATIONS
      [] state = STATE_ONBOARDING_VACCINATIONS -> STATE_ONBOARDING_PHOTO
      [] state = STATE_ONBOARDING_PHOTO -> STATE_ONBOARDING_OWNER
      [] state = STATE_ONBOARDING_OWNER -> STATE_NORMAL

\* the columns of pets the optional steps fill
OptionalColumns ==
    {"gender", "breed", "birth_date", "weight", "vaccinations", "photo_id", "owner_name"}

\* C23: the pet the time-zone step creates has no optional column set; a text
\* that starts with the skip word, in small letters or in capitals, handled
\* in an optional step of the onboarding changes no pet and moves the session
\* to the step that follows, and from the owner step to idle without data.
C23_SkippingKeepsPetBare ==
    [][\A u \in Users :
          LET state == get_user_state(Store, u)
          IN /\ (Handled(u) /\ Pressed(u, "tz") /\ pets' # pets)
                => \A column \in OptionalColumns : pets'[u][column] = None
             /\ (Handled(u) /\ inbox[u].kind = "text" /\ inbox[u].txt \in SkipTexts
                    /\ state \in OptionalSteps)
                => /\ pets' = pets
                   /\ get_user_state(StoreAfter, u) = StepAfter(state)
                   /\ state = STATE_ONBOARDING_OWNER
                      => IsEmpty(get_user_data(StoreAfter, u))]_vars

\* the onboarding has ended with its first and its last but one optional
\* step skipped: the pet has no gender and no photo
C23_Witness ==
    /\ reply[1] = "onboarding_done"
    /\ get_user_state(Store, 1) = STATE_NORMAL
    /\ 1 \in DOMAIN pets
    /\ pets[1].gender = None
    /\ pets[1].photo_id = None

-----------------------------------------------------------------------------
(* SpecEnds: every flow of the bot, each with the inputs its steps accept.   *)
(* The owner goes through the flows of reminders, notes and the pet's name,  *)
(* deletes the pet and goes through the onboarding again; a supervisor       *)
(* transcribes the requests the database file holds when the process starts, *)
(* one after the other.                                                      *)

InitEnds == InitHandoff

\* what the owner may send in the state
OwnerUpdates(state) ==
    CASE state = STATE_NORMAL ->
             IF NoPet(1)
             THEN {Command("start"), Document}
             ELSE {Command("reminder") : x \in {y \in {1} : CanCreate /\ IsEmpty(reminders)}}
                  \cup {Text(BTN_NOTE) : x \in {y \in {1} : IsEmpty(records)
                                                             /\ nextId.records <= MaxRecords}}
                  \cup {Callback(tag, id) : tag \in {"edit_text", "edit_time"},
                                            id \in DOMAIN reminders}
                  \cup {Callback("pet_edit_name", 0), Document}
                  \cup {Callback("pet_confirm_delete", 0) :
                            x \in {y \in {1} : nextId.pets = 2}}
      [] state = STATE_ONBOARDING_NAME -> {Text(WALK)}
      [] state = STATE_ONBOARDING_TYPE -> {Callback("pet_type", 1)}
      [] state = STATE_ONBOARDING_TIMEZONE -> {Callback("tz", 19)}
      [] state \in OptionalSteps -> {Text(<<"Propus", "tit">>)}
      [] state = STATE_REMINDER_TEXT -> {Text(WALK)}
      [] state = STATE_REMINDER_DAY ->
             {Callback(tag, 0) : tag \in {"day_quick_1h", "day_quick_3h", "day_today"}}
      [] state \in {STATE_REMINDER_TIME, STATE_EDIT_REMINDER_TIME} ->
             {Text(FormatTime(9, 30))}
      [] state = STATE_REMINDER_RECURRING ->
             {Callback(tag, 0) : tag \in {"recurring_no", "recurring_weekly"}}
      [] state = STATE_EDIT_REMINDER_TEXT -> {Text(<<"run">>)}
      [] state = STATE_EDIT_REMINDER_DAY -> {Callback("editday_today", 0)}
      [] state = STATE_EDIT_PET_NAME -> {Text(<<"Max">>)}
      [] state = STATE_NOTE_TEXT ->
             IF IsEmpty(get_user_data(Store, 1))
             THEN {Text(WALK)}
             ELSE {Callback("note_tag", 3), Callback("note_tag_none", 0),
                   Callback("note_tag_custom", 0)}
      [] state = STATE_NOTE_TAG -> {Text(<<"sleep">>)}
      [] OTHER -> {}

\* what the supervisor u may send, while the owner is idle
SupervisorUpdates(u) ==
    IF get_user_state(Store, 1) = STATE_NORMAL /\ inbox[1] = NoUpdate
    THEN {Command("supervisor_on") : x \in {y \in {1} : u \notin DOMAIN supervisors}}
         \cup {Callback("take_request", id) :
                   id \in {y \in DOMAIN requests : u \in DOMAIN supervisors
                                                    /\ requests[y].status = REQUEST_PENDING}}
         \cup {Text(<<"diagnosis">>) : x \in {y \in {1} :
                   get_user_state(Store, u) = STATE_SUPERVISOR_TRANSCRIPTION}}
    ELSE {}

\* what the user u may send
EndsUpdates(u) ==
    IF u = 1 THEN OwnerUpdates(get_user_state(Store, 1)) ELSE SupervisorUpdates(u)

ReceiveEnds ==
    /\ \E u \in Users : \E update \in EndsUpdates(u) : Arrive(u, update)
    /\ UNCHANGED <<sessionVars, dbVars, now, job, sweep, buttons, fnVars>>

NextEnds ==
    \/ ReceiveEnds
    \/ \E u \in Users : start(u)
    \/ \E u \in Users : handle_onboarding(u)
    \/ \E u \in Users : onboarding_photo(u)
    \/ \E u \in Users : handle_pet_type_callback(u)
    \/ \E u \in Users : handle_timezone_callback(u)
    \/ \E u \in Users : handle_menu_buttons(u)
    \/ \E u \in Users : note_text(u)
    \/ \E u \in Users : handle_note_tag_callback(u)
    \/ \E u \in Users : handle_note_custom_tag_input(u)
    \/ \E u \in Users : reminder_command(u)
    \/ \E u \in Users : handle_reminder_flow(u)
    \/ \E u \in Users : handle_reminder_day_callback(u)
    \/ \E u \in Users : handle_reminder_time_input(u)
    \/ \E u \in Users : handle_recurring_callback(u)
    \/ \E u \in Users : handle_reminder_actions_callback(u)
    \/ \E u \in Users : handle_edit_reminder_text(u)
    \/ \E u \in Users : handle_edit_day_callback(u)
    \/ \E u \in Users : handle_edit_time_input(u)
    \/ \E u \in Users : handle_pet_edit_callback(u)
    \/ \E u \in Users : handle_edit_pet_name(u)
    \/ \E u \in Users : pet_confirm_delete(u)
    \/ \E u \in Users : handle_pdf_for_transcription(u)
    \/ \E u \in Users : supervisor_on_command(u)
    \/ \E u \in Users : handle_take_request_callback(u)
    \/ \E u \in Users : take_request_document_sent(u)
    \/ \E u \in Users : take_request_document_failed(u)
    \/ \E u \in Users : handle_supervisor_transcription(u)
    \/ \E u \in Users : transcription_owner_notified(u)
    \/ \E u \in Users : transcription_owner_unreachable(u)

SpecEnds == InitEnds /\ [][NextEnds]_vars

\* the answers of the steps that complete a flow
FinalAnswers ==
    {"created", "text_updated", "time_updated", "renamed", "note_saved",
     "onboarding_done", "document_received", "transcription_saved",
     "transcription_saved_owner_unreachable"}

\* the handler of u's update ends with this step
Ends(u) == inbox[u] # NoUpdate /\ inbox'[u] = NoUpdate

\* C24: when a handler ends with the answer of a completed flow (a reminder
\* created, at once or with a recurrence choice, a reminder's text or time
\* changed, the pet renamed, a note saved, the onboarding ended, a document
\* taken, a transcription saved), the session of its user is idle and holds
\* no data.
C24_FlowsEndIdle ==
    [][\A u \in Users :
          (Ends(u) /\ reply'[u] \in FinalAnswers)
          => /\ get_user_state(StoreAfter, u) = STATE_NORMAL
             /\ IsEmpty(get_user_data(StoreAfter, u))]_vars

\* the owner has completed a flow that held data
C24_Witness ==
    /\ reply[1] \in {"created", "note_saved", "time_updated"}
    /\ get_user_state(Store, 1) = STATE_NORMAL
    /\ IsEmpty(get_user_data(Store, 1))

-----------------------------------------------------------------------------
(* SpecAnswer: weekly reminders, the answers to the repeat question and the  *)
(* pause, next to the two jobs                                               *)

InitAnswer == InitRecur

\* what the owner u may send
AnswerUpdates(u) ==
    LET state == get_user_state(Store, u)
    IN {Command("reminder") : x \in {y \in {1} : CanCreate /\ state = STATE_NORMAL}}
       \cup {Text(<<"walk">>) : x \in {y \in {1} : state = STATE_REMINDER_TEXT}}
       \cup {Callback("day_today", 0) :
                 x \in {y \in {1} : state = STATE_REMINDER_DAY /\ CanCreate}}
       \cup {Text(FormatTime(0, 5)) : x \in {y \in {1} : state = STATE_REMINDER_TIME}}
       \cup {Callback("recurring_weekly", 0) :
                 x \in {y \in {1} : state = STATE_REMINDER_RECURRING /\ CanCreate}}
       \cup {Callback("pause", id) : id \in {y \in RemindersOf(u) : state = STATE_NORMAL}}
       \cup {Callback("reminder_done", b[2]) : b \in {c \in buttons : c[1] = "reminder"}}
       \cup {Callback(tag, b[2]) : tag \in {"repeat_yes", "repeat_no", "repeat_pause"},
                                   b \in {c \in buttons : c[1] = "repeat"}}

ReceiveAnswer ==
    /\ \E u \in DOMAIN pets : \E update \in AnswerUpdates(u) : Arrive(u, update)
    /\ UNCHANGED <<sessionVars, dbVars, now, job, sweep, buttons, fnVars>>

NextAnswer ==
    \/ ReceiveAnswer
    \/ Tick(PassClock)
    \/ StartPass
    \/ SendReminderOk
    \/ StartSweep
    \/ SendConfirmationOk
    \/ \E u \in Users : reminder_command(u)
    \/ \E u \in Users : handle_reminder_flow(u)
    \/ \E u \in Users : handle_reminder_day_callback(u)
    \/ \E u \in Users : handle_reminder_time_input(u)
    \/ \E u \in Users : handle_recurring_callback(u)
    \/ \E u \in Users : handle_reminder_actions_callback(u)
    \/ \E u \in Users : handle_reminder_action(u)
    \/ \E u \in Users : handle_repeat_confirmation_callback(u)

SpecAnswer == InitAnswer /\ [][NextAnswer]_vars

\* the times a pass may run at, from the clock and from the due times
PassTimes == {now} \cup PassClock \cup {reminders'[id].remind_at : id \in DOMAIN reminders'}

\* C25: when the answer "no" to the repeat question of a weekly reminder is
\* handled, the row changes in its weekly flag alone, which is cleared, and
\* the row it leaves is returned neither by the query of the due-reminder
\* pass, at any time, nor by the query of the re-confirmation sweep.
C25_NoAnswerMakesInert ==
    [][\A u \in Users :
          LET id == inbox[u].arg
              reminder == get_reminder_by_id(reminders, id)
          IN (/\ Handled(u)
              /\ Pressed(u, "repeat_no")
              /\ ~IsEmpty(reminder)
              /\ reminder.user_id = u
              /\ reminder.is_recurring /\ ~reminder.is_daily)
             => /\ reminders' = [reminders EXCEPT ![id].is_recurring = FALSE]
                /\ \A t \in PassTimes : id \notin PendingReminderIds(reminders', t)
                /\ id \notin RecurringToConfirmIds(reminders')]_vars


\* the step pauses the reminder of the button: "repeat_pause_<id>" or
\* "pause_<id>", pressed by the owner of the reminder
Pauses(u) ==
    /\ Handled(u)
    /\ Pressed(u, "repeat_pause") \/ Pressed(u, "pause")
    /\ ~IsEmpty(get_reminder_by_id(reminders, inbox[u].arg))
    /\ get_reminder_by_id(reminders, inbox[u].arg).user_id = u

\* C26: a pause changes the row of the reminder in is_active alone, which it
\* clears, and deletes no row; and whenever the due-reminder pass emits the
\* notification of a reminder, the stored reminder is not paused.
C26_PausedIsKeptAndSilent ==
    [][/\ \A u \in Users :
             Pauses(u) => reminders' = [reminders EXCEPT ![inbox[u].arg].is_active = FALSE]
       /\ Emits => LET id == job'.pending[job'.idx].id
                   IN id \in DOMAIN reminders' => reminders'[id].is_active]_vars


-----------------------------------------------------------------------------
(* SpecTimes: one owner whose pet lives in the first, the half-hour or the   *)
(* last zone of the list creates one reminder for a day and a time, has it   *)
(* delivered, answers it, and moves it to another time                       *)

TimesZones == {TIMEZONES[1], TIMEZONES[19], TIMEZONES[26]}

InitTimes == Started /\ FnIdle /\ \E timezone \in TimesZones : OneOwner(timezone)

\* the times of day the owner types
TimesTexts == {FormatTime(0, 5), FormatTime(23, 30)}

\* what the owner u may send
TimesUpdates(u) ==
    LET state == get_user_state(Store, u)
    IN CASE state = STATE_NORMAL ->
                 {Command("reminder") : x \in {y \in {1} : IsEmpty(reminders) /\ nextId.reminders = 1}}
                 \cup {Callback("edit_time", id) : id \in RemindersOf(u)}
                 \cup {Callback("reminder_done", b[2]) : b \in {c \in buttons : c[1] = "reminder"}}
                 \cup {Callback("repeat_yes", b[2]) : b \in {c \in buttons : c[1] = "repeat"}}
         [] state = STATE_REMINDER_TEXT -> {Text(<<"walk">>)}
         [] state = STATE_REMINDER_DAY -> {Callback("day_today", 0), Callback("day_week", 1)}
         [] state \in {STATE_REMINDER_TIME, STATE_EDIT_REMINDER_TIME} ->
                 {Text(text) : text \in TimesTexts}
         [] state = STATE_REMINDER_RECURRING ->
                 {Callback(tag, 0) : tag \in RecurringTags}
         [] state = STATE_EDIT_REMINDER_DAY ->
                 {Callback("editday_today", 0), Callback("editday_tomorrow", 0)}
         [] OTHER -> {}

ReceiveTimes ==
    /\ \E u \in DOMAIN pets : \E update \in TimesUpdates(u) : Arrive(u, update)
    /\ UNCHANGED <<sessionVars, dbVars, now, job, sweep, buttons, fnVars>>

NextTimes ==
    \/ ReceiveTimes
    \/ Tick(PassClock)
    \/ StartPass
    \/ SendReminderOk
    \/ \E u \in Users : reminder_command(u)
    \/ \E u \in Users : handle_reminder_flow(u)
    \/ \E u \in Users : handle_reminder_day_callback(u)
    \/ \E u \in Users : handle_reminder_time_input(u)
    \/ \E u \in Users : handle_recurring_callback(u)
    \/ \E u \in Users : handle_reminder_actions_callback(u)
    \/ \E u \in Users : handle_edit_day_callback(u)
    \/ \E u \in Users : handle_edit_time_input(u)
    \/ \E u \in Users : handle_reminder_action(u)
    \/ \E u \in Users : handle_repeat_confirmation_callback(u)

SpecTimes == InitTimes /\ [][NextTimes]_vars

\* the minutes a stored offset is ahead of UTC, read off its characters
\* "+HH:MM" or "-HH:MM"
OffsetMinutes(tz) ==
    (IF tz[1] = "-" THEN 0 - 1 ELSE 1)
        * ((10 * DigitValue(tz[2]) + DigitValue(tz[3])) * MinutesPerHour
           + 10 * DigitValue(tz[5]) + DigitValue(tz[6]))

\* the server lives three hours ahead of UTC
ServerOffsetMinutes == 3 * MinutesPerHour

\* the due time of the reminder id after the step is the wall-clock time
\* (date, time_of_day) of the pet of u, less the minutes the pet's offset is
\* ahead of the server's
DueIs(u, id, date, time_of_day) ==
    /\ id \in DOMAIN reminders'
    /\ reminders'[id].remind_at =
           date * MinutesPerDay + MinuteOfDay(time_of_day)
               - (OffsetMinutes(pets[u].timezone) - ServerOffsetMinutes)

\* C27: the step that creates a reminder with a recurrence choice, the step
\* that takes the new time of an edit, the daily re-arm and the weekly re-arm
\* each store as the due time the wall-clock time of the owner (the chosen
\* date with the entered time of day; tomorrow with the stored time of day;
\* the next stored weekday with the stored time of day) less (offset of the
\* pet - offset of the server) in minutes.
C27_DueIsServerTime ==
    [][\A u \in Users :
          LET user_data == get_user_data(Store, u)
              id == inbox[u].arg
          IN Handled(u) =>
               /\ reply'[u] = "created" /\ inbox[u].tag \in RecurringTags
                    => DueIs(u, nextId.reminders, user_data.date, user_data.time)
               /\ reply'[u] = "time_updated"
                    => DueIs(u, user_data.reminder_id, user_data.date, inbox[u].txt)
               /\ reply'[u] = "repeats_tomorrow"
                    => DueIs(u, id, DateOf(now) + 1, reminders[id].time_of_day)
               /\ reply'[u] = "will_repeat"
                    => \E d \in 1..13 :
                          /\ Weekday(now + d * MinutesPerDay) = reminders[id].day_of_week
                          /\ DueIs(u, id, DateOf(now) + d, reminders[id].time_of_day)]_vars

\* a weekly reminder of a pet half an hour off the full hours is re-armed
C27_Witness ==
    /\ reply[1] = "will_repeat"
    /\ pets[1].timezone = TIMEZONES[19]
    /\ 1 \in DOMAIN reminders
    /\ reminders[1].time_of_day = FormatTime(23, 30)
    /\ ~reminders[1].sent


-----------------------------------------------------------------------------
(* The session store is per user: C28 *)

\* what the store holds under the keys of the user v: user_id and
\* f"{user_id}_data", each present or not
SessionOf(store, v) ==
    [state |-> IF v \in DOMAIN store.states THEN <<store.states[v]>> ELSE <<>>,
     data |-> IF v \in DOMAIN store.data THEN <<store.data[v]>> ELSE <<>>]

\* the step runs a handler, or a part of one, for an update of the user u
ActsFor(u) == inbox[u] # NoUpdate /\ (pc'[u] # pc[u] \/ inbox'[u] # inbox[u])

\* C28: a handler step run for the event of one user, with the set and clear
\* operations it makes on the session store, leaves the state tag and the
\* transient data of every other user as they were.
C28_SessionsAreApart ==
    [][\A u \in Users : \A v \in Users \ {u} :
          ActsFor(u) => SessionOf(StoreAfter, v) = SessionOf(Store, v)]_vars

\* the supervisor holds a request while the owner is typing a reminder
C28_Witness ==
    /\ DOMAIN USER_STATES = Users
    /\ DOMAIN USER_DATA = Users
    /\ USER_STATES[1] = STATE_REMINDER_DAY
    /\ USER_STATES[2] = STATE_SUPERVISOR_TRANSCRIPTION


-----------------------------------------------------------------------------
(* auto_detect_tag.  The keywords are pieces of a text, written here in      *)
(* Latin letters; no keyword of the list is a part of another one, so a      *)
(* keyword occurs in a text when it is one of the text's pieces.             *)

\* tag_keywords, in the order of the dict: the category and its keywords
tag_keywords ==
    << [tag |-> "vaccination", keywords |-> {"privivka", "vakcin", "ukol"}],
       [tag |-> "checkup",
        keywords |-> {"vrach", "veterinar", "klinika", "osmotr", "priyom"}],
       [tag |-> "medication",
        keywords |-> {"lekarstv", "tabletk", "kapl", "maz", "preparat"}],
       [tag |-> "lab_tests", keywords |-> {"analiz", "krov", "mocha", "uzi"}],
       [tag |-> "parasite_treatment",
        keywords |-> {"obrabotka", "bloh", "kleshch", "glist", "parazit"}],
       [tag |-> "feeding", keywords |-> {"korm", "eda", "pitanie", "dieta"}] >>

\* kw in text
In(kw, text) == \E i \in 1..Len(text) : text[i] = kw

\* a faulty variant: the last category with a keyword in the text wins
auto_detect_tag_last_wins(text) ==
    LET text_lower == lower(text)
        hits == {i \in 1..Len(tag_keywords) :
                    \E kw \in tag_keywords[i].keywords : In(kw, text_lower)}
    IN IF hits = {} THEN None
       ELSE tag_keywords[CHOOSE i \in hits : \A j \in hits : j <= i].tag

\* the loop from the category i on
RECURSIVE DetectFrom(_, _)
DetectFrom(text_lower, i) ==
    IF i > Len(tag_keywords) THEN None
    ELSE IF \E kw \in tag_keywords[i].keywords : In(kw, text_lower)
    THEN tag_keywords[i].tag
    ELSE DetectFrom(text_lower, i + 1)

auto_detect_tag(text) == DetectFrom(lower(text), 1)

-----------------------------------------------------------------------------
(* SpecTag: auto_detect_tag on texts of up to MaxWords pieces *)

\* the pieces of the texts: keywords of five categories in small letters,
\* capitalized and in capitals, and a word that is no keyword
TagWords == {"Privivka", "korm", "KORM", "vrach", "tabletk", "glist", "Analiz", "walk"}

TagTexts == UNION {[1..n -> TagWords] : n \in 0..MaxWords}

InitTag ==
    /\ Started
    /\ TzIdle
    /\ NoRows
    /\ tagText \in TagTexts
    /\ tagOut = "off"

\* tag = auto_detect_tag(text)
DetectTag ==
    /\ tagOut = "off"
    /\ tagOut' = auto_detect_tag(tagText)
    /\ UNCHANGED <<sessionVars, dbVars, now, handlerVars, job, sweep, buttons,
                   tzVars, tagText>>

NextTag == DetectTag

SpecTag == InitTag /\ [][NextTag]_vars

\* the other writings of the keywords among TagWords
Writings == [privivka |-> {"Privivka"}, korm |-> {"KORM"}, analiz |-> {"Analiz"}]

\* the category at the place c of the fixed order has a keyword that occurs
\* in the text, the case of the letters aside
Matches(c, text) ==
    \E kw \in tag_keywords[c].keywords : \E i \in 1..Len(text) :
        \/ text[i] = kw
        \/ kw \in DOMAIN Writings /\ text[i] \in Writings[kw]

\* C29: auto_detect_tag returns the first category, in the order vaccination,
\* checkup, medication, lab tests, parasite treatment, feeding, of which a
\* keyword occurs in the text whatever the case of the letters, and no tag
\* when no category has one; a text with keywords of vaccination and of
\* feeding gets vaccination.
C29_FirstCategoryWins ==
    tagOut # "off" =>
        /\ tagOut = None <=> \A c \in 1..Len(NoteTags) : ~Matches(c, tagText)
        /\ \A c \in 1..Len(NoteTags) :
              tagOut = NoteTags[c]
                 <=> Matches(c, tagText) /\ \A b \in 1..(c - 1) : ~Matches(b, tagText)
        /\ Matches(1, tagText) /\ Matches(6, tagText) => tagOut = "vaccination"

\* a text with feeding in capitals first and vaccination after it
C29_Witness ==
    /\ tagText = <<"KORM", "Privivka">>
    /\ tagOut = "vaccination"


-----------------------------------------------------------------------------
(* SpecNote: an owner writes notes with and without keywords and gives each  *)
(* a tag of the keyboard, a typed tag or no tag                              *)

InitNote == Started /\ FnIdle /\ OneOwner(SERVER_TIMEZONE)

\* the texts of the notes
NoteTexts == {<<"tabletk", "glist">>, <<"KORM", "Privivka">>, <<"walk">>}

\* what the owner u may send
NoteUpdates(u) ==
    LET state == get_user_state(Store, u)
        room == nextId.records <= MaxRecords
    IN CASE state = STATE_NORMAL -> {Text(BTN_NOTE) : x \in {y \in {1} : room}}
         [] state = STATE_NOTE_TEXT /\ IsEmpty(get_user_data(Store, u)) ->
                 {Text(text) : text \in NoteTexts}
         [] state = STATE_NOTE_TEXT ->
                 {Callback("note_tag", c) : c \in {y \in 1..Len(NoteTags) : room}}
                 \cup {Callback(tag, 0) :
                           tag \in {y \in {"note_tag_none", "note_tag_custom"} : room}}
         [] state = STATE_NOTE_TAG -> {Text(<<"walk">>) : x \in {y \in {1} : room}}
         [] OTHER -> {}

ReceiveNote ==
    /\ \E u \in DOMAIN pets : \E update \in NoteUpdates(u) : Arrive(u, update)
    /\ UNCHANGED <<sessionVars, dbVars, now, job, sweep, buttons, fnVars>>

NextNote ==
    \/ ReceiveNote
    \/ \E u \in Users : handle_menu_buttons(u)
    \/ \E u \in Users : note_text(u)
    \/ \E u \in Users : handle_note_tag_callback(u)
    \/ \E u \in Users : handle_note_custom_tag_input(u)

SpecNote == InitNote /\ [][NextNote]_vars

\* C30: when the owner of a pet has entered a note through the note flow and
\* leaves the note without a tag of their choice, the record the step creates
\* is no visit and carries the category auto_detect_tag finds in the text of
\* the note (medication for a text with keywords of medication and of
\* parasite treatment).
C30_UntaggedNoteIsDetected ==
    [][\A u \in Users :
          (/\ Handled(u) /\ Pressed(u, "note_tag_none")
           /\ ~IsEmpty(get_pet(pets, u)) /\ ~IsEmpty(get_user_data(Store, u)))
          => /\ nextId.records \in DOMAIN records'
             /\ ~records'[nextId.records].is_visit
             /\ records'[nextId.records].text = NoteText(get_user_data(Store, u))
             /\ records'[nextId.records].tag = auto_detect_tag(NoteText(get_user_data(Store, u)))]_vars


-----------------------------------------------------------------------------
(* SpecStale: an owner writes notes as texts and as photos, creates and      *)
(* edits a reminder, and presses the buttons of a keyboard of tags whenever  *)
(* one has been sent, whatever the session holds by then                     *)

InitStale == Started /\ FnIdle /\ OneOwner(SERVER_TIMEZONE)

\* what the owner u may send
StaleUpdates(u) ==
    LET state == get_user_state(Store, u)
        room == nextId.records <= MaxRecords
    IN {Callback(tag, 0) : tag \in {y \in {"note_tag_none", "note_tag_custom"} :
                                       room /\ <<"note_tag", 0>> \in buttons}}
       \cup {Callback("note_tag", 1) : x \in {y \in {1} : room /\ <<"note_tag", 0>> \in buttons}}
       \cup {Callback("edit_text", id) : id \in {y \in RemindersOf(u) : state = STATE_NORMAL}}
       \cup (CASE state = STATE_NORMAL ->
                    {Text(BTN_NOTE) : x \in {y \in {1} : room}}
                    \cup {Command("reminder") : x \in {y \in {1} : nextId.reminders = 1}}
               [] state = STATE_NOTE_TEXT -> {Text(<<"walk">>), Photo}
               [] state = STATE_NOTE_TAG -> {Text(<<"sleep">>)}
               [] state = STATE_REMINDER_TEXT -> {Text(<<"walk">>)}
               [] state = STATE_REMINDER_DAY -> {Callback("day_quick_1h", 0)}
               [] state = STATE_EDIT_REMINDER_TEXT -> {Text(<<"run">>)}
               [] OTHER -> {})

ReceiveStale ==
    /\ \E u \in DOMAIN pets : \E update \in StaleUpdates(u) : Arrive(u, update)
    /\ UNCHANGED <<sessionVars, dbVars, now, job, sweep, buttons, fnVars>>

NextStale ==
    \/ ReceiveStale
    \/ \E u \in Users : handle_menu_buttons(u)
    \/ \E u \in Users : note_text(u)
    \/ \E u \in Users : handle_note_tag_callback(u)
    \/ \E u \in Users : handle_note_custom_tag_input(u)
    \/ \E u \in Users : reminder_command(u)
    \/ \E u \in Users : handle_reminder_flow(u)
    \/ \E u \in Users : handle_reminder_day_callback(u)
    \/ \E u \in Users : handle_reminder_actions_callback(u)
    \/ \E u \in Users : handle_edit_reminder_text(u)

SpecStale == InitStale /\ [][NextStale]_vars

\* C31: every record has a text that is not empty or a photo.
C31_RecordHasContent ==
    \A id \in DOMAIN records : records[id].text # <<>> \/ records[id].photo_id # None


-----------------------------------------------------------------------------
(* SpecDesk: users join and leave the supervisors, send /start, take the     *)
(* waiting requests and transcribe them, while the owner may delete the pet. *)
(* The requests are rows the database file holds when the process starts,    *)
(* as in SpecHandoff.                                                        *)

InitDesk == InitHandoff

\* what the user u may send
DeskUpdates(u) ==
    LET state == get_user_state(Store, u)
    IN {Command("supervisor_on") : x \in {y \in {1} : u \notin DOMAIN supervisors
                                                       /\ nextId.supervisors <= MaxUsers}}
       \cup {Command("supervisor_off") : x \in {y \in {1} : u \in DOMAIN supervisors}}
       \cup {Command("start") : x \in {y \in {1} : state = STATE_SUPERVISOR_TRANSCRIPTION}}
       \cup {Callback("take_request", id) :
                 id \in {y \in DOMAIN requests : u \in DOMAIN supervisors}}
       \cup {Text(<<"diagnosis">>) : x \in {y \in {1} : state = STATE_SUPERVISOR_TRANSCRIPTION}}
       \cup {Callback("pet_confirm_delete", 0) :
                 x \in {y \in {1} : u \in DOMAIN pets /\ state = STATE_NORMAL}}

ReceiveDesk ==
    /\ \E u \in Users : \E update \in DeskUpdates(u) : Arrive(u, update)
    /\ UNCHANGED <<sessionVars, dbVars, now, job, sweep, buttons, fnVars>>

NextDesk ==
    \/ ReceiveDesk
    \/ \E u \in Users : supervisor_on_command(u)
    \/ \E u \in Users : supervisor_off_command(u)
    \/ \E u \in Users : start(u)
    \/ \E u \in Users : handle_take_request_callback(u)
    \/ \E u \in Users : take_request_document_sent(u)
    \/ \E u \in Users : take_request_document_failed(u)
    \/ \E u \in Users : handle_supervisor_transcription(u)
    \/ \E u \in Users : transcription_owner_notified(u)
    \/ \E u \in Users : transcription_owner_unreachable(u)
    \/ \E u \in Users : pet_confirm_delete(u)

SpecDesk == InitDesk /\ [][NextDesk]_vars

\* the session of the user u is set to the transcription of the request id
Transcribes(u, id) ==
    /\ get_user_state(Store, u) = STATE_SUPERVISOR_TRANSCRIPTION
    /\ "request_id" \in DOMAIN get_user_data(Store, u)
    /\ get_user_data(Store, u).request_id = id

\* the claim of the user u on the request id waits for send_document
Forwards(u, id) == pc[u] = "send_document" /\ frame[u].request_id = id

\* C32: every request that is in progress is held by the supervisor it is
\* assigned to: that supervisor is in the list, and their session is set to
\* the transcription of this request (or their claim still forwards the
\* document), so that the request can be completed.
C32_InProgressIsHeld ==
    \A id \in DOMAIN requests :
        requests[id].status = REQUEST_IN_PROGRESS
            => \E u \in DOMAIN supervisors :
                   /\ supervisors[u].id = requests[id].supervisor_id
                   /\ Transcribes(u, id) \/ Forwards(u, id)


-----------------------------------------------------------------------------
(* The life of a request: C33, C36 *)

\* the place of a status in the order pending, in_progress, completed
StatusRank(status) ==
    CASE status = REQUEST_PENDING -> 0
      [] status = REQUEST_IN_PROGRESS -> 1
      [] status = REQUEST_COMPLETED -> 2

\* the records of visits the step creates
NewVisits == {id \in DOMAIN records' \ DOMAIN records : records'[id].is_visit}

\* the step writes the transcription of the user u into the tables
Synthesizes(u) ==
    /\ Handled(u) \/ (inbox[u] # NoUpdate /\ pc[u] = "idle" /\ pc'[u] = "notify_owner")
    /\ NewVisits # {}

\* C33: the status of a request moves from pending to in_progress and from
\* in_progress to completed only, one step at a time; the supervisor of a
\* request stays once it is set; and a record of a visit is created only by
\* the one user whose session holds the request, one record in a step, for a
\* request that is in progress and completed by the step (or whose row is
\* gone), and the session is over after it: no request gets two records.
C33_RequestMovesForward ==
    [][/\ \A id \in DOMAIN requests \cap DOMAIN requests' :
             /\ StatusRank(requests'[id].status) - StatusRank(requests[id].status) \in {0, 1}
             /\ requests[id].supervisor_id # NoInt
                    => requests'[id].supervisor_id = requests[id].supervisor_id
       /\ \A id \in DOMAIN requests' : id \in DOMAIN requests \/ id >= nextId.requests
       /\ \A u \in Users : \A v \in Users \ {u} : \A id \in 1..MaxRequests :
             ~(Transcribes(u, id) /\ Transcribes(v, id))
       /\ \A u \in Users : \A id \in DOMAIN requests :
             Transcribes(u, id) => requests[id].status = REQUEST_IN_PROGRESS
       /\ NewVisits # {}
             => /\ Cardinality(NewVisits) = 1
                /\ \E u \in Users : \E id \in 1..MaxRequests :
                      /\ Synthesizes(u)
                      /\ Transcribes(u, id)
                      /\ id \in DOMAIN requests
                            => /\ requests[id].status = REQUEST_IN_PROGRESS
                               /\ requests'[id].status = REQUEST_COMPLETED
                      /\ get_user_state(StoreAfter, u) = STATE_NORMAL
                      /\ IsEmpty(get_user_data(StoreAfter, u))]_vars

\* both requests are completed, each with its record of the visit
C33_Witness ==
    /\ \A id \in 1..MaxRequests :
           id \in DOMAIN requests /\ requests[id].status = REQUEST_COMPLETED
    /\ Cardinality({id \in DOMAIN records : records[id].is_visit}) = MaxRequests

\* C36: every user whose session awaits the text of a transcription is in
\* the list of supervisors.
C36_TranscriberIsSupervisor ==
    \A u \in Users :
        get_user_state(Store, u) = STATE_SUPERVISOR_TRANSCRIPTION => is_supervisor(supervisors, u)

\* a supervisor left while another one is at work on a request
C36_Witness ==
    /\ get_user_state(Store, 2) = STATE_SUPERVISOR_TRANSCRIPTION
    /\ 2 \in DOMAIN supervisors
    /\ 1 \notin DOMAIN supervisors
    /\ reply[1] = "supervisor_off"


-----------------------------------------------------------------------------
(* Re-arming next to the delivery pass: C34 *)

\* C34: a reminder that is not sent becomes sent only by the pass that sent
\* its notification, and only while the stored reminder is due and pending:
\* after a re-arm or a time edit has moved the due time and cleared sent, a
\* pass that read the reminder before does not mark it sent.
C34_RearmedStaysUnsent ==
    [][\A id \in DOMAIN reminders \cap DOMAIN reminders' :
          ~reminders[id].sent /\ reminders'[id].sent
              => /\ job.pc = "send"
                 /\ job.pending[job.idx].id = id
                 /\ reminders[id].remind_at <= now
                 /\ reminders[id].status = STATUS_PENDING]_vars


-----------------------------------------------------------------------------
(* The rows of a pet: C35 *)

\* the ids of the pets in the table
PetIds == {pets[u].id : u \in DOMAIN pets}

\* C35: every record, every reminder and every transcription request carries
\* the id of a pet that is in the table.
C35_RowsHaveTheirPet ==
    /\ \A id \in DOMAIN records : records[id].pet_id \in PetIds
    /\ \A id \in DOMAIN reminders : reminders[id].pet_id \in PetIds
    /\ \A id \in DOMAIN requests : requests[id].pet_id \in PetIds


-----------------------------------------------------------------------------
(* The due time of a re-armed reminder: C37 *)

\* C37: when a daily reminder is re-armed by "done" or "skip", or a weekly
\* one by the answer yes, its new due time is later than the time of the
\* server at which the answer is handled.
C37_RearmIsInTheFuture ==
    [][\A u \in Users :
          Handled(u) /\ reply'[u] \in {"repeats_tomorrow", "will_repeat"}
              => reminders'[inbox[u].arg].remind_at > now]_vars


-----------------------------------------------------------------------------
(* The columns of a repeating reminder: C38, C39 *)

\* C38: every reminder that repeats weekly has a stored day of the week from
\* 0 to 6 and a stored time of day.
C38_WeeklyHasDayAndTime ==
    \A id \in DOMAIN reminders :
        reminders[id].is_recurring
            => reminders[id].day_of_week \in 0..6 /\ reminders[id].time_of_day # NoTime

\* C39: no reminder repeats both daily and weekly.
C39_OneKindOfRepeat ==
    \A id \in DOMAIN reminders : ~(reminders[id].is_daily /\ reminders[id].is_recurring)


-----------------------------------------------------------------------------
(* The answer to a delivery: C40 *)

\* C40: a reminder whose status is done or skipped is sent.
C40_AnsweredIsSent ==
    \A id \in DOMAIN reminders :
        reminders[id].status \in {STATUS_DONE, STATUS_SKIPPED} => reminders[id].sent

=============================================================================
